---- MODULE Spec2Model ----
(***************************************************************************)
(* Resilience core of the JSX agents: CircuitBreaker, AsyncWorkQueue and   *)
(* BaseAsyncAgent.execute_with_resilience, with the agents'                *)
(* reset_system_state (src/agents/jsxcreate/jsx_generator.py;              *)
(* jsx_content_analyzer.py holds the same CircuitBreaker, the same         *)
(* _worker, start, stop, enqueue_work and get_results of AsyncWorkQueue    *)
(* and the same execute_with_resilience, and its own reset_system_state).  *)
(*                                                                         *)
(* Time is discrete; one tick is the granularity of time.monotonic() that  *)
(* the model observes.  A synchronous method runs within one tick: every   *)
(* time.monotonic() call it makes returns the same value.                  *)
(***************************************************************************)
EXTENDS Integers, Sequences, FiniteSets, TLC

\* ------------------------------------------------------------------ bounds
MaxThreshold == 3      \* failure_threshold ranges over 1..MaxThreshold
MaxHalfOpen  == 2      \* half_open_attempts ranges over 1..MaxHalfOpen
MaxRecovery  == 2      \* recovery_timeout ranges over 1..MaxRecovery ticks
MaxTime      == 5      \* the clock stops advancing at MaxTime
MaxCalls     == 2      \* concurrent CircuitBreaker.execute calls
MaxFailures  == 4      \* cap on _failure_count (it is unbounded while OPEN)

MaxItems     == 3      \* work items (ids 1..MaxItems), each enqueued once
MaxPool      == 2      \* max_workers ranges over 1..MaxPool
MaxCap       == 2      \* max_queue_size ranges over 1..MaxCap
MaxStarts    == 2      \* times the worker pool is started
MaxLifeItems == 2      \* items enqueued in the start/stop workload
MaxBatches   == 2      \* batches collected and processed concurrently
MaxBatchSize == 2      \* batch_size ranges over 1..MaxBatchSize

MaxRetries   == 2      \* max_retries ranges over -1..MaxRetries
MaxBackoff   == 2      \* backoff_factor ranges over 1..MaxBackoff
MaxStat      == 1      \* cap on the counters that the agent's entry points bump
MaxFallbacks == 2      \* cap on fallback_used in the fallback workload

MaxThreads   == 2      \* OS threads calling the SessionManager
MaxSessions  == 2      \* sessions created (ids 1..MaxSessions)
MaxEntries   == 2      \* entry-point calls counted by total_attempts
MaxStores    == 2      \* store_agent_result calls made by one thread
MaxHours     == 1      \* time.time() stops advancing at MaxHours

\* -------------------------------------------------------------- constants
CLOSED    == "CLOSED"
OPEN      == "OPEN"
HALF_OPEN == "HALF_OPEN"
NoneTime  == -1        \* _last_failure_time = None
StartTime == 1         \* first value of time.monotonic() the model observes

Results    == {"r1", "r2"}          \* values an operation may return
Exceptions == {"e1", "e2"}          \* exceptions an operation may raise
CircuitBreakerOpenError == "CircuitBreakerOpenError"
RecursionError == "RecursionError"
TimeoutError   == "TimeoutError"
AttributeError == "AttributeError"
RuntimeError   == "RuntimeError"
ExhaustedError == "Exception: failed after max retries"
FALLBACK_RESULT == "FALLBACK_RESULT_FOR_task_id"
NoneExc        == "None"            \* last_exception = None
DefaultRetries == 2                 \* max_retries: int = 2
InitialTimeout == 1                 \* initial_timeout, in units of itself
RecentWindow   == 1                 \* 3600 s, in units of 3600 s

VARIABLES
  \* CircuitBreaker configuration (immutable after __init__)
  failure_threshold, recovery_timeout, half_open_attempts,
  \* CircuitBreaker fields, as one record, plus two instrumentation fields
  \* n_success / n_failure counting the record_success / record_failure
  \* calls made by the operation that produced the current state
  circuit_breaker,
  now,            \* time.monotonic()
  calls,          \* calls[c]: "idle" | "running" (admitted, operation pending)
  \* history of the last breaker operation
  lastOp,         \* name of the operation
  pre,            \* the breaker record before it
  ret,            \* what it returned or raised
  invoked,        \* whether it invoked the guarded operation
  opOutcome,      \* how the guarded operation ended, when it ended in this step
  streakF,        \* record_failure calls since CLOSED with _failure_count 0
  streakS         \* record_success calls since entering HALF_OPEN

VARIABLES
  \* AsyncWorkQueue configuration
  _max_workers, max_queue_size,
  \* AsyncWorkQueue fields
  _running,       \* bool
  _workers,       \* the task list: 0 when empty, else the number g of the
                  \* start() call that created its _max_workers tasks
  _queue,         \* item ids held by the asyncio.PriorityQueue
  unfinished_tasks, \* asyncio.Queue._unfinished_tasks (put: +1, task_done: -1)
  _results,       \* _results[i]: "none" (no entry) or the entry's status
  \* work items and tasks
  priority,       \* priority[i]: WorkItem.priority of the item with id i
  enq,            \* enq[i]: state of the enqueue_work(i) call
  \* Worker tasks.  The tasks of one start() call run the same code on the
  \* same queue and differ only in what they are doing, so they are kept as
  \* counts per start() call (generation) rather than one by one.
  idle,           \* idle[g]: tasks of generation g suspended in queue.get()
  flight,         \* flight[i]: [pc, gen] of the task executing item i
  cancel_requested, \* generations whose live tasks have cancel() pending
  created,        \* number of start() calls that created tasks so far
  stop_pc,        \* position of the stop() call: "idle", "join", "gather"
  stop_wait,      \* generation of the tasks stop() handed to asyncio.gather
  stop_snapshot,  \* the stop() call in progress: its graceful argument and
                  \* the items that were queued or in flight when it was made
  stop_returned,  \* what held when the last stop() call returned
  get_pc,         \* position of the get_results() call: "idle", "join"
  get_arg,        \* its specific_ids argument
  get_returned,   \* history: the last get_results() return
  \* history
  executed,       \* executed[i]: times item i's task_func was started
  behaviour,      \* behaviour[i]: how the execution of item i ended: its
                  \* callable completed ("success"), exceeded item.timeout
                  \* ("timeout") or raised ("error"); "none" before that
  last_completed, \* priority of the item whose result was written last
  out_of_order,   \* a result was written after one of a greater priority
  full_at_call,   \* full_at_call[i]: the queue was full when i was enqueued
  late_enqueue,   \* an item was put after a worker had taken one
  lifecycle,      \* the last start() or stop() call, and whether the queue
                  \* was running when it was made
  \* batch variant (jsx_content_analyzer.py)
  batch_size,
  semaphore,      \* permits left of asyncio.Semaphore(max_workers)
  batches         \* batches[b]: position of the caller that collects and
                  \* processes batch b, the items of the batch, and those
                  \* whose _execute_work_item_safe has not ended

VARIABLES
  \* BaseAsyncAgent fields
  agent_class,      \* "JSXCreatorAgent" or "JSXContentAnalyzer"
  fallback_to_sync, \* the sync-mode flag
  execution_stats,  \* the five counters
  \* the execute_with_resilience call: arguments and locals
  er_pc,            \* "idle", "pending", "attempt", "running", "sleeping",
                    \* "done"
  er_kind,          \* task_func is a "callable", a "coroutine" or a "future"
  max_retries, backoff_factor,
  current_retry, current_timeout, last_exception,
  \* history of the call
  er_trace,         \* how each attempt of the call ended, in order
  er_invocations,   \* times the call invoked the operation
  op_value,         \* value the operation (or pending computation) returned
  sleeps,           \* durations of the call's asyncio.sleep calls, in order
  er_ret,           \* what the call returned or raised
  reset_ret,        \* what the last reset_system_state call returned or raised
  clear_scheduled,  \* clear_results() tasks created and not yet run
  attempt_start,    \* history: the breaker's fields and the time when the
                    \* call's latest attempt reached CircuitBreaker.execute
  fallback_call,    \* history: the last _get_fallback_result call made by a
                    \* caller: its task id, the value returned, and a bit
                    \* that flips at every call
  entry_call        \* the generate_jsx_components_async or
                    \* analyze_content_for_jsx call in progress: its
                    \* position, the flag it found, the mode it took, the
                    \* execute_with_resilience calls it has finished

VARIABLES
  \* SessionManager (src/utils/session_isolation.py)
  sessions,       \* the dict sessions: session id -> SessionConfig
  session_data,   \* the dict session_data: session id -> its data
  session_locks,  \* the keys of the dict session_locks
  lock_owner,     \* lock_owner[s]: thread holding the threading.Lock made
                  \* for session s (0: free); the Lock object outlives its
                  \* entry in session_locks while a thread refers to it
  _lock,          \* thread holding SessionManager._lock (0: free)
  time_time,      \* time.time(), in units of 3600 s
  threads         \* threads[t]: the SessionManager call that thread t is
                  \* making, its position, arguments, locals and outcome

smvars == <<sessions, session_data, session_locks, lock_owner, _lock,
            time_time, threads>>

ervars == <<agent_class, entry_call, attempt_start, fallback_call,
            fallback_to_sync, execution_stats,
            er_pc, er_kind,
            max_retries, backoff_factor, current_retry, current_timeout,
            last_exception, er_trace, er_invocations, op_value,
            sleeps, er_ret, reset_ret, clear_scheduled>>

qvars == <<_max_workers, max_queue_size, _running, _workers, _queue,
           unfinished_tasks, _results, priority, enq, idle, flight,
           cancel_requested, created, stop_pc, stop_wait, stop_snapshot,
           stop_returned, get_pc, get_arg, get_returned, executed,
           behaviour, last_completed, out_of_order, full_at_call, late_enqueue,
           lifecycle, batch_size, semaphore, batches>>

cbvars == <<failure_threshold, recovery_timeout, half_open_attempts,
            circuit_breaker, now, calls, lastOp, pre, ret, invoked,
            opOutcome, streakF, streakS>>

cbvars_but_calls == <<failure_threshold, recovery_timeout,
                      half_open_attempts, circuit_breaker, now, lastOp, pre,
                      ret, invoked, opOutcome, streakF, streakS>>

vars == <<cbvars, qvars, ervars, smvars>>

CallIds == 1..MaxCalls

NoRet == [kind |-> "none", val |-> "none"]

\* ----------------------------------------------------------- CircuitBreaker

\* Python truthiness of _last_failure_time: None and 0.0 are falsy.
Truthy(t) == t # NoneTime /\ t # 0

\* Instrumentation: forget the call counts of the previous operation.
Fresh(b) == [b EXCEPT !.n_success = 0, !.n_failure = 0]

\* Variant of state that forgets to reset _success_count.
state_keeps_success_count(b, t) ==
  IF b.state = OPEN
     /\ Truthy(b.last_failure_time)
     /\ (t - b.last_failure_time) > recovery_timeout
  THEN [b EXCEPT !.state = HALF_OPEN]
  ELSE b

\* Variant of state that leaves OPEN as soon as recovery_timeout has elapsed
\* (>= for >).
state_early(b, t) ==
  IF b.state = OPEN
     /\ Truthy(b.last_failure_time)
     /\ (t - b.last_failure_time) >= recovery_timeout
  THEN [b EXCEPT !.state = HALF_OPEN, !.success_count = 0]
  ELSE b

\* @property state: lazy OPEN -> HALF_OPEN transition on read.
state(b, t) ==
  IF b.state = OPEN
     /\ Truthy(b.last_failure_time)
     /\ (t - b.last_failure_time) > recovery_timeout
  THEN [b EXCEPT !.state = HALF_OPEN, !.success_count = 0]
  ELSE b

_reset_counts(b) == [b EXCEPT !.failure_count = 0, !.success_count = 0]

\* Variant of record_failure that opens one failure late (> for >=).
record_failure_late(b, t) ==
  LET b1 == [b EXCEPT !.failure_count = @ + 1,
                      !.last_failure_time = t,
                      !.n_failure = @ + 1]
      b2 == state(b1, t)
      b3 == IF b2.failure_count > failure_threshold THEN state(b2, t) ELSE b2
  IN  IF b2.state = HALF_OPEN
      THEN [b2 EXCEPT !.state = OPEN, !.failure_count = failure_threshold]
      ELSE IF b2.failure_count > failure_threshold /\ b3.state = CLOSED
           THEN [b3 EXCEPT !.state = OPEN]
           ELSE b3

\* Variant of record_failure that reopens from HALF_OPEN without setting
\* _failure_count to the threshold.
record_failure_no_pin(b, t) ==
  LET b1 == [b EXCEPT !.failure_count = @ + 1,
                      !.last_failure_time = t,
                      !.n_failure = @ + 1]
      b2 == state(b1, t)
      b3 == IF b2.failure_count >= failure_threshold THEN state(b2, t) ELSE b2
  IN  IF b2.state = HALF_OPEN
      THEN [b2 EXCEPT !.state = OPEN]
      ELSE IF b2.failure_count >= failure_threshold /\ b3.state = CLOSED
           THEN [b3 EXCEPT !.state = OPEN]
           ELSE b3

\* Variant of record_failure that keeps the time of the failure that
\* opened the breaker when a later failure arrives while it is OPEN.
record_failure_keeps_time(b, t) ==
  LET b1 == [b EXCEPT !.failure_count = @ + 1,
                      !.last_failure_time =
                         IF b.state = OPEN THEN @ ELSE t,
                      !.n_failure = @ + 1]
      b2 == state(b1, t)
      b3 == IF b2.failure_count >= failure_threshold THEN state(b2, t) ELSE b2
  IN  IF b2.state = HALF_OPEN
      THEN [b2 EXCEPT !.state = OPEN, !.failure_count = failure_threshold]
      ELSE IF b2.failure_count >= failure_threshold /\ b3.state = CLOSED
           THEN [b3 EXCEPT !.state = OPEN]
           ELSE b3

record_failure(b, t) ==
  LET b1 == [b EXCEPT !.failure_count = @ + 1,
                      !.last_failure_time = t,
                      !.n_failure = @ + 1]
      b2 == state(b1, t)
      \* the elif reads state only when the count test passes
      b3 == IF b2.failure_count >= failure_threshold THEN state(b2, t) ELSE b2
  IN  IF b2.state = HALF_OPEN
      THEN [b2 EXCEPT !.state = OPEN, !.failure_count = failure_threshold]
      ELSE IF b2.failure_count >= failure_threshold /\ b3.state = CLOSED
           THEN [b3 EXCEPT !.state = OPEN]
           ELSE b3

\* Variant of record_success that closes one success late (> for >=).
record_success_late(b, t) ==
  LET b0 == [b EXCEPT !.n_success = @ + 1]
      b1 == state(b0, t)
      b2 == [b1 EXCEPT !.success_count = @ + 1]
      b3 == state(b1, t)
  IN  IF b1.state = HALF_OPEN
      THEN IF b2.success_count > half_open_attempts
           THEN _reset_counts([b2 EXCEPT !.state = CLOSED])
           ELSE b2
      ELSE IF b3.state = CLOSED THEN _reset_counts(b3) ELSE b3

\* Variant of record_success that, in CLOSED, takes one failure off the count
\* instead of resetting it (a leaky bucket).
record_success_leaky(b, t) ==
  LET b0 == [b EXCEPT !.n_success = @ + 1]
      b1 == state(b0, t)
      b2 == [b1 EXCEPT !.success_count = @ + 1]
      b3 == state(b1, t)
  IN  IF b1.state = HALF_OPEN
      THEN IF b2.success_count >= half_open_attempts
           THEN _reset_counts([b2 EXCEPT !.state = CLOSED])
           ELSE b2
      ELSE IF b3.state = CLOSED
           THEN [b3 EXCEPT !.failure_count = IF @ > 0 THEN @ - 1 ELSE 0,
                           !.success_count = 0]
           ELSE b3

record_success(b, t) ==
  LET b0 == [b EXCEPT !.n_success = @ + 1]
      b1 == state(b0, t)
      b2 == [b1 EXCEPT !.success_count = @ + 1]
      b3 == state(b1, t)
  IN  IF b1.state = HALF_OPEN
      THEN IF b2.success_count >= half_open_attempts
           THEN _reset_counts([b2 EXCEPT !.state = CLOSED])
           ELSE b2
      ELSE IF b3.state = CLOSED THEN _reset_counts(b3) ELSE b3

\* ------------------------------------------------------- history variables

FailureOps == {"record_failure", "execute_raise"}
SuccessOps == {"record_success", "execute_return"}

NextStreakF(op, b2) ==
  IF b2.state = CLOSED /\ b2.failure_count = 0 THEN 0
  ELSE IF op \in FailureOps
       THEN IF streakF >= 0 /\ streakF < failure_threshold
            THEN streakF + 1 ELSE -1
       ELSE IF op \in SuccessOps THEN -1 ELSE streakF

NextStreakS(op, b1, b2) ==
  IF op \in FailureOps THEN -1
  ELSE IF op \in SuccessOps
       THEN IF b1.state = HALF_OPEN /\ streakS >= 0 THEN streakS + 1
            ELSE IF b1.state = OPEN /\ b2.state # OPEN THEN 1
            ELSE -1
       ELSE IF b1.state = OPEN /\ b2.state = HALF_OPEN THEN 0 ELSE streakS

\* Common bookkeeping of every breaker operation.
ObserveBreaker(op, b2, r, inv, out) ==
  /\ circuit_breaker' = b2
  /\ lastOp' = op
  /\ pre' = circuit_breaker
  /\ ret' = r
  /\ invoked' = inv
  /\ opOutcome' = out
  /\ streakF' = NextStreakF(op, b2)
  /\ streakS' = NextStreakS(op, circuit_breaker, b2)
  /\ UNCHANGED <<failure_threshold, recovery_timeout, half_open_attempts, now>>
  /\ UNCHANGED <<smvars, qvars>>

\* A breaker operation made by a direct user of the breaker.
Observe(op, b2, r, inv, out) ==
  /\ ObserveBreaker(op, b2, r, inv, out)
  /\ UNCHANGED ervars

\* ------------------------------------------------------------------- Init

InitBreaker ==
  [state |-> CLOSED, failure_count |-> 0, success_count |-> 0,
   last_failure_time |-> NoneTime, n_success |-> 0, n_failure |-> 0]

\* CircuitBreaker.__init__ with the given configuration.
NewBreaker(ft, rt, hoa) ==
  /\ failure_threshold = ft
  /\ recovery_timeout = rt
  /\ half_open_attempts = hoa
  /\ circuit_breaker = InitBreaker
  /\ now = StartTime
  /\ calls = [c \in CallIds |-> "idle"]
  /\ lastOp = "init"
  /\ pre = InitBreaker
  /\ ret = NoRet
  /\ invoked = FALSE
  /\ opOutcome = NoRet
  /\ streakF = 0
  /\ streakS = -1

AgentClasses == {"JSXCreatorAgent", "JSXContentAnalyzer"}
StatNames == {"total_attempts", "successful_executions", "fallback_used",
              "circuit_breaker_triggered", "timeout_occurred"}

NoFallbackCall == [made |-> FALSE, task_id |-> <<>>,
                   value |-> [status |-> "none"], n |-> 0]

NoStats == [total_attempts |-> 0, successful_executions |-> 0,
            fallback_used |-> 0, circuit_breaker_triggered |-> 0,
            timeout_occurred |-> 0]

\* SessionManager (src/utils/session_isolation.py)
Threads    == 1..MaxThreads
SessionIds == 1..MaxSessions
AgentNames == {"JSXCreatorAgent", "JSXContentAnalyzer"}
IsolationLevels == {"strict", "moderate", "minimal"}

NoResult == [sid |-> 0, agent |-> "none", by |-> 0, k |-> 0,
             contaminated |-> FALSE]
NoThread == [op |-> "none", pc |-> "idle", sid |-> 0, agent |-> "none",
             level |-> "none", result |-> NoResult, ret |-> "none",
             got |-> <<>>, stores |-> 0]

\* SessionManager.__init__: three empty dicts.
NewSessionManager ==
  /\ sessions = <<>>
  /\ session_data = <<>>
  /\ session_locks = {}
  /\ lock_owner = [s \in SessionIds |-> -1]
  /\ _lock = 0
  /\ time_time = 0
  /\ threads = [t \in Threads |-> NoThread]

NoEntry == [pc |-> "idle", flag_at_entry |-> FALSE, mode |-> "none",
            stage |-> 0, ret |-> "none"]

NoAttempt == [made |-> FALSE, breaker |-> InitBreaker, at |-> 0]

\* BaseAsyncAgent.__init__ in an agent of class cls, before any call.
NewAgent(cls) ==
  /\ agent_class = cls
  /\ fallback_to_sync = FALSE
  /\ execution_stats = NoStats
  /\ er_pc = "idle"
  /\ er_kind = "callable"
  /\ max_retries = 0
  /\ backoff_factor = 1
  /\ current_retry = 0
  /\ current_timeout = InitialTimeout
  /\ last_exception = NoneExc
  /\ er_trace = <<>>
  /\ er_invocations = 0
  /\ op_value = "none"
  /\ sleeps = <<>>
  /\ er_ret = NoRet
  /\ reset_ret = NoRet
  /\ clear_scheduled = 0
  /\ fallback_call = NoFallbackCall
  /\ attempt_start = NoAttempt
  /\ entry_call = NoEntry

ItemIds == 1..MaxItems
Gens    == 1..MaxStarts

NoTask == [pc |-> "none", gen |-> 0]
NoStop == [graceful |-> FALSE, items |-> {}]
\* specific_ids: None (given = FALSE) or a list, kept as the set of its ids.
IdsArgs == [given : BOOLEAN, ids : SUBSET ItemIds] \
             {a \in [given : BOOLEAN, ids : SUBSET ItemIds] :
                ~a.given /\ a.ids # {}}
NoneIds == [given |-> FALSE, ids |-> {}]
NoGet   == [returned |-> FALSE, arg |-> NoneIds, drained |-> FALSE,
            stored |-> [i \in ItemIds |-> "none"],
            value |-> [i \in ItemIds |-> "none"]]
Batches == 1..MaxBatches
NoBatch == [pc |-> "idle", items |-> {}, running |-> {}]
NoCall == [op |-> "none", was_running |-> FALSE]
NoReport == [returned |-> FALSE, graceful |-> FALSE, unprocessed |-> FALSE,
             alive |-> FALSE, listed |-> FALSE]

\* AsyncWorkQueue.__init__ with the given configuration, and the WorkItems
\* the caller is going to enqueue, item i having priority prio[i].
NewBatchQueue(mw, size, prio, bs) ==
  /\ batch_size = bs
  /\ semaphore = mw
  /\ batches = [b \in Batches |-> NoBatch]
  /\ _max_workers = mw
  /\ max_queue_size = size
  /\ _running = FALSE
  /\ _workers = 0
  /\ _queue = {}
  /\ unfinished_tasks = 0
  /\ _results = [i \in ItemIds |-> "none"]
  /\ priority = prio
  /\ enq = [i \in ItemIds |-> "new"]
  /\ idle = [g \in Gens |-> 0]
  /\ flight = [i \in ItemIds |-> NoTask]
  /\ cancel_requested = {}
  /\ created = 0
  /\ stop_pc = "idle"
  /\ stop_wait = 0
  /\ stop_snapshot = NoStop
  /\ stop_returned = NoReport
  /\ get_pc = "idle"
  /\ get_arg = NoneIds
  /\ get_returned = NoGet
  /\ executed = [i \in ItemIds |-> 0]
  /\ behaviour = [i \in ItemIds |-> "none"]
  /\ last_completed = 0
  /\ out_of_order = FALSE
  /\ full_at_call = [i \in ItemIds |-> FALSE]
  /\ late_enqueue = FALSE
  /\ lifecycle = NoCall

\* The same without batches: batch_size is not used.
NewQueue(mw, size, prio) == NewBatchQueue(mw, size, prio, 1)

InitCB ==
  /\ \E ft \in 1..MaxThreshold, rt \in 1..MaxRecovery, hoa \in 1..MaxHalfOpen :
        NewBreaker(ft, rt, hoa)
  /\ NewQueue(1, 1, [i \in ItemIds |-> 1])
  /\ NewAgent("JSXCreatorAgent")
  /\ NewSessionManager

\* ---------------------------------------------------------------- actions

\* time.monotonic() advances.
Tick ==
  /\ now < MaxTime
  /\ now' = now + 1
  /\ lastOp' = "tick"
  /\ pre' = circuit_breaker
  /\ ret' = NoRet
  /\ invoked' = FALSE
  /\ opOutcome' = NoRet
  /\ UNCHANGED <<failure_threshold, recovery_timeout, half_open_attempts,
                 circuit_breaker, calls, streakF, streakS>>
  /\ UNCHANGED <<smvars, qvars, ervars>>

\* A caller reads circuit_breaker.state.
ReadState ==
  LET b2 == state(Fresh(circuit_breaker), now)
  IN  /\ Observe("state", b2, [kind |-> "return", val |-> b2.state], FALSE,
                 NoRet)
      /\ UNCHANGED calls

RecordFailure ==
  /\ circuit_breaker.failure_count < MaxFailures
  /\ Observe("record_failure", record_failure(Fresh(circuit_breaker), now),
             NoRet, FALSE, NoRet)
  /\ UNCHANGED calls

RecordSuccess ==
  /\ Observe("record_success", record_success(Fresh(circuit_breaker), now),
             NoRet, FALSE, NoRet)
  /\ UNCHANGED calls

\* Variant of ExecuteBegin whose OPEN check sits inside the try block, so
\* that the rejection is itself recorded as a failure.
ExecuteBegin_reject_in_try(c) ==
  /\ calls[c] = "idle"
  /\ LET b2 == state(Fresh(circuit_breaker), now)
     IN  IF b2.state = OPEN
         THEN /\ Observe("execute_reject", record_failure(b2, now),
                         [kind |-> "raise", val |-> CircuitBreakerOpenError],
                         FALSE, NoRet)
              /\ UNCHANGED calls
         ELSE /\ Observe("execute_admit", b2, NoRet, TRUE, NoRet)
              /\ calls' = [calls EXCEPT ![c] = "running"]

\* CircuitBreaker.execute up to its first suspension: the OPEN check, then
\* the operation is started and awaited.
ExecuteBegin(c) ==
  /\ calls[c] = "idle"
  /\ LET b2 == state(Fresh(circuit_breaker), now)
     IN  IF b2.state = OPEN
         THEN /\ Observe("execute_reject", b2,
                         [kind |-> "raise", val |-> CircuitBreakerOpenError],
                         FALSE, NoRet)
              /\ UNCHANGED calls
         ELSE /\ Observe("execute_admit", b2, NoRet, TRUE, NoRet)
              /\ calls' = [calls EXCEPT ![c] = "running"]

\* The awaited operation completed with result r.
ExecuteReturn(c, r) ==
  /\ calls[c] = "running"
  /\ Observe("execute_return", record_success(Fresh(circuit_breaker), now),
             [kind |-> "return", val |-> r], FALSE,
             [kind |-> "return", val |-> r])
  /\ calls' = [calls EXCEPT ![c] = "idle"]

\* Variant of ExecuteRaise that records the failure and swallows the
\* exception (no `raise e`).
ExecuteRaise_swallow(c, e) ==
  /\ calls[c] = "running"
  /\ circuit_breaker.failure_count < MaxFailures
  /\ Observe("execute_raise", record_failure(Fresh(circuit_breaker), now),
             [kind |-> "return", val |-> "None"], FALSE,
             [kind |-> "raise", val |-> e])
  /\ calls' = [calls EXCEPT ![c] = "idle"]

\* The awaited operation raised exception e (an Exception subclass).
ExecuteRaise(c, e) ==
  /\ calls[c] = "running"
  /\ circuit_breaker.failure_count < MaxFailures
  /\ Observe("execute_raise", record_failure(Fresh(circuit_breaker), now),
             [kind |-> "raise", val |-> e], FALSE,
             [kind |-> "raise", val |-> e])
  /\ calls' = [calls EXCEPT ![c] = "idle"]

\* The awaiting caller was cancelled (asyncio.wait_for timeout): the
\* CancelledError is a BaseException and passes through `except Exception`.
ExecuteCancelled(c) ==
  /\ calls[c] = "running"
  /\ Observe("execute_cancelled", Fresh(circuit_breaker),
             [kind |-> "raise", val |-> "CancelledError"], FALSE, NoRet)
  /\ calls' = [calls EXCEPT ![c] = "idle"]

NextCB ==
  \/ Tick
  \/ ReadState
  \/ RecordFailure
  \/ RecordSuccess
  \/ \E c \in CallIds : ExecuteBegin(c)
  \/ \E c \in CallIds, r \in Results : ExecuteReturn(c, r)
  \/ \E c \in CallIds, e \in Exceptions : ExecuteRaise(c, e)
  \/ \E c \in CallIds : ExecuteCancelled(c)

SpecCB == InitCB /\ [][NextCB]_vars

\* ----------------------------------------------------------- AsyncWorkQueue
\* asyncio runs one task at a time; a task's step between two suspensions is
\* atomic, so each action below is one such step.  Task.cancel() raises
\* CancelledError in the task at the await where it is suspended.

Priorities == {1, 2, 3, 5}
Statuses   == {"success", "timeout", "error"}

\* Variant of WorkItem.__lt__ with the comparison reversed.
WorkItem_lt_reversed(a, b) == priority[a] > priority[b]

\* WorkItem.__lt__
WorkItem_lt(a, b) == priority[a] < priority[b]

\* Variant of HeapMin that takes any queued item.
HeapMin_any(q) == q

\* The items PriorityQueue.get may return: heapq pops a least element under
\* __lt__; which one among equal priorities depends on the heap's layout.
HeapMin(q) == {i \in q : \A j \in q : ~WorkItem_lt(j, i)}

\* asyncio.Queue.full()
Full(q) == Cardinality(q) >= max_queue_size

\* The worker's `while self._running or not self._queue.empty()` test,
\* reached after each item: TRUE when the worker goes on to the next get.
LoopTest(running, q) == running \/ q # {}

\* The items being executed by tasks of generation g, and the number of
\* tasks of generation g that have not ended.
InFlightOf(g) == {i \in ItemIds : flight[i].pc # "none" /\ flight[i].gen = g}
Alive(g) == idle[g] + Cardinality(InFlightOf(g))

\* Groups of variables for the frame conditions.
qconfig  == <<_max_workers, max_queue_size, priority>>
qpool    == <<_running, _workers, created>>
qtasks   == <<idle, flight>>
qstop    == <<stop_pc, stop_wait, stop_snapshot, stop_returned>>
qorder   == <<last_completed, out_of_order, behaviour>>
qget     == <<get_pc, get_arg, get_returned>>
qcalls   == <<lifecycle>>
qbatch   == <<batch_size, semaphore, batches>>

\* AsyncWorkQueue.start when not running: a new list of _max_workers tasks
\* replaces self._workers.  A new task is placed at its first get: _running
\* is true when it is created, and until its first step it can only be
\* cancelled, which ends it as a cancellation at the get does.
StartWorkers ==
  /\ created < MaxStarts
  /\ _running' = TRUE
  /\ created' = created + 1
  /\ _workers' = created + 1
  /\ idle' = [idle EXCEPT ![created + 1] = _max_workers]

\* Variant of start without the `if not self._running:` guard.
start_unguarded ==
  /\ lifecycle' = [op |-> "start", was_running |-> _running]
  /\ StartWorkers
  /\ UNCHANGED <<smvars, cbvars, ervars, qget, qconfig, qbatch, qstop, qorder,
                 _queue, unfinished_tasks, _results, enq, flight,
                 cancel_requested, executed, full_at_call, late_enqueue>>

\* start(): `if not self._running:` guards the whole body.
start ==
  /\ lifecycle' = [op |-> "start", was_running |-> _running]
  /\ IF _running
     THEN UNCHANGED <<qpool, idle>>
     ELSE StartWorkers
  /\ UNCHANGED <<smvars, cbvars, ervars, qget, qconfig, qbatch, qstop, qorder,
                 _queue, unfinished_tasks, _results, enq, flight,
                 cancel_requested, executed, full_at_call, late_enqueue>>

\* asyncio.Queue.put once there is room: put_nowait.
PutItem(i) ==
  /\ _queue' = _queue \cup {i}
  /\ unfinished_tasks' = unfinished_tasks + 1
  /\ enq' = [enq EXCEPT ![i] = "true"]
  /\ late_enqueue' = (late_enqueue \/ \E j \in ItemIds : executed[j] > 0)

\* enqueue_work(item) with item.id = i: auto-start, then
\* `await self._queue.put(item)`, which suspends while the queue is full.
\* The caller enqueues its items in the order of their ids.
enqueue_work(i) ==
  /\ enq[i] = "new"
  /\ \A j \in ItemIds : j < i => enq[j] # "new"
  /\ full_at_call' = [full_at_call EXCEPT ![i] = Full(_queue)]
  /\ IF _running
     THEN UNCHANGED <<qpool, idle>>
     ELSE StartWorkers
  /\ IF Full(_queue)
     THEN /\ enq' = [enq EXCEPT ![i] = "blocked"]
          /\ UNCHANGED <<_queue, unfinished_tasks, late_enqueue>>
     ELSE PutItem(i)
  /\ UNCHANGED <<smvars, cbvars, ervars, qget, qconfig, qcalls, qbatch, qstop,
                 qorder,
                 _results, flight, cancel_requested, executed>>

\* A suspended put is woken after a get made room, and returns True.
enqueue_resume(i) ==
  /\ enq[i] = "blocked"
  /\ ~Full(_queue)
  /\ PutItem(i)
  /\ UNCHANGED <<smvars, cbvars, ervars, qget, qconfig, qcalls, qbatch, qpool,
                 qtasks,
                 qstop, qorder, _results, cancel_requested, executed,
                 full_at_call>>

\* In a task of generation g, `await wait_for(self._queue.get(), 1.0)`
\* returns an item and the worker starts item.task_func under
\* wait_for(item.timeout).
WorkerGet(g) ==
  /\ idle[g] > 0
  /\ g \notin cancel_requested
  /\ \E i \in HeapMin(_queue) :
       /\ _queue' = _queue \ {i}
       /\ idle' = [idle EXCEPT ![g] = @ - 1]
       /\ flight' = [flight EXCEPT ![i] = [pc |-> "run", gen |-> g]]
       /\ executed' = [executed EXCEPT ![i] = @ + 1]
  /\ UNCHANGED <<smvars, cbvars, ervars, qget, qconfig, qcalls, qbatch, qpool,
                 qstop,
                 qorder, unfinished_tasks, _results, enq, cancel_requested,
                 full_at_call, late_enqueue>>

\* The get timed out on an empty queue after stop(): `break`.  (While
\* _running the worker loops back into the same get.)
WorkerIdleExit(g) ==
  /\ idle[g] > 0
  /\ g \notin cancel_requested
  /\ _queue = {}
  /\ ~_running
  /\ idle' = [idle EXCEPT ![g] = @ - 1]
  /\ UNCHANGED <<smvars, cbvars, ervars, qget, qconfig, qcalls, qbatch, qpool,
                 qstop,
                 qorder, _queue, unfinished_tasks, _results, enq, flight,
                 cancel_requested, executed, full_at_call, late_enqueue>>

\* Store the result entry of item i, `finally: self._queue.task_done()`,
\* then the loop test: back to get, or the task ends.
StoreAndLoop(i, status, outcome) ==
  /\ _results' = [_results EXCEPT ![i] = status]
  /\ behaviour' = [behaviour EXCEPT ![i] = outcome]
  /\ last_completed' = priority[i]
  /\ out_of_order' = (out_of_order \/ priority[i] < last_completed)
  /\ unfinished_tasks' = unfinished_tasks - 1
  /\ flight' = [flight EXCEPT ![i] = NoTask]
  /\ idle' = IF LoopTest(_running, _queue)
             THEN [idle EXCEPT ![flight[i].gen] = @ + 1]
             ELSE idle

\* The task_func of item i ended: returned a value ("success"), exceeded
\* item.timeout ("timeout"), raised ("error"), or returned a coroutine
\* ("nested"), which the worker awaits once more.
WorkerFinish(i, outcome) ==
  /\ flight[i].pc = "run"
  /\ flight[i].gen \notin cancel_requested
  /\ IF outcome = "nested"
     THEN /\ flight' = [flight EXCEPT ![i].pc = "nested"]
          /\ UNCHANGED <<qorder, _results, unfinished_tasks, idle>>
     ELSE StoreAndLoop(i, outcome, outcome)
  /\ UNCHANGED <<smvars, cbvars, ervars, qget, qconfig, qcalls, qbatch, qpool,
                 qstop,
                 _queue, enq, cancel_requested, executed, full_at_call,
                 late_enqueue>>

\* The status stored for a nested coroutine: its value is stored as success;
\* `except Exception` takes any exception, the TimeoutError of wait_for
\* included, and stores error.
NestedStatus(outcome) == IF outcome = "success" THEN "success" ELSE "error"

\* The nested coroutine ended (completed, exceeded item.timeout or raised):
\* the entry is stored, then `continue`.
WorkerNestedFinish(i, outcome) ==
  /\ flight[i].pc = "nested"
  /\ flight[i].gen \notin cancel_requested
  /\ StoreAndLoop(i, NestedStatus(outcome), outcome)
  /\ UNCHANGED <<smvars, cbvars, ervars, qget, qconfig, qcalls, qbatch, qpool,
                 qstop,
                 _queue, enq, cancel_requested, executed, full_at_call,
                 late_enqueue>>

\* Once every task that cancel() was called on has ended, none is pending.
CancelDelivered(g, idle2, flight2) ==
  IF idle2[g] = 0
     /\ \A i \in ItemIds : ~(flight2[i].pc # "none" /\ flight2[i].gen = g)
  THEN cancel_requested \ {g}
  ELSE cancel_requested

\* CancelledError reaches a task that is suspended in queue.get(): it is not
\* an Exception, no except clause of _worker catches it, the task ends.
WorkerCancelledIdle(g) ==
  /\ g \in cancel_requested
  /\ idle[g] > 0
  /\ idle' = [idle EXCEPT ![g] = @ - 1]
  /\ cancel_requested' = CancelDelivered(g, idle', flight)
  /\ UNCHANGED <<smvars, cbvars, ervars, qget, qconfig, qcalls, qbatch, qpool,
                 qstop,
                 qorder, _queue, unfinished_tasks, _results, enq, flight,
                 executed, full_at_call, late_enqueue>>

\* Variant of WorkerCancelledRunning in which the cancelled task ends
\* without task_done().
WorkerCancelledRunning_not_done(i) ==
  /\ flight[i].pc # "none"
  /\ flight[i].gen \in cancel_requested
  /\ flight' = [flight EXCEPT ![i] = NoTask]
  /\ cancel_requested' = CancelDelivered(flight[i].gen, idle, flight')
  /\ UNCHANGED <<smvars, cbvars, ervars, qget, qconfig, qcalls, qbatch, qpool,
                 qstop, qorder, _queue, unfinished_tasks, _results, enq,
                 idle, executed, full_at_call, late_enqueue>>

\* CancelledError reaches the task that is executing item i: the awaited
\* task_func (or nested coroutine) is cancelled, no except clause matches,
\* `finally: self._queue.task_done()` runs and the task ends; no result
\* entry is written.
WorkerCancelledRunning(i) ==
  /\ flight[i].pc # "none"
  /\ flight[i].gen \in cancel_requested
  /\ flight' = [flight EXCEPT ![i] = NoTask]
  /\ unfinished_tasks' = unfinished_tasks - 1
  /\ cancel_requested' = CancelDelivered(flight[i].gen, idle, flight')
  /\ UNCHANGED <<smvars, cbvars, ervars, qget, qconfig, qcalls, qbatch, qpool,
                 qstop,
                 qorder, _queue, _results, enq, idle, executed, full_at_call,
                 late_enqueue>>

\* History: the stop() call described by snap returns, self._workers being
\* w at that moment.
StopReport(snap, w) ==
  [returned    |-> TRUE,
   graceful    |-> snap.graceful,
   unprocessed |-> \E i \in snap.items : _results[i] = "none",
   alive       |-> \E g \in Gens : Alive(g) > 0,
   listed      |-> w # 0]

\* stop(): `for t in self._workers: t.cancel()` then gather; with an empty
\* list stop returns at once.  cancel() on a task that has ended does
\* nothing.
CancelWorkers(snap) ==
  /\ cancel_requested' = IF _workers # 0 /\ Alive(_workers) > 0
                         THEN cancel_requested \cup {_workers}
                         ELSE cancel_requested
  /\ stop_wait' = _workers
  /\ IF _workers = 0
     THEN /\ stop_pc' = "idle"
          /\ stop_snapshot' = NoStop
          /\ stop_returned' = StopReport(snap, 0)
     ELSE /\ stop_pc' = "gather"
          /\ stop_snapshot' = snap
          /\ UNCHANGED stop_returned

\* stop(graceful) up to its first suspension: `if self._running:` guards
\* the whole body; join() suspends only while unfinished tasks remain.  One
\* stop() call on a running queue is in progress at a time.
stop(graceful) ==
  /\ lifecycle' = [op |-> "stop", was_running |-> _running]
  /\ IF ~_running
     THEN UNCHANGED <<_running, qstop, cancel_requested>>
     ELSE /\ stop_pc = "idle"
          /\ _running' = FALSE
          /\ LET snap == [graceful |-> graceful,
                          items |-> _queue \cup
                                    {i \in ItemIds : flight[i].pc # "none"}]
             IN  IF graceful /\ unfinished_tasks > 0
                 THEN /\ stop_pc' = "join"
                      /\ stop_snapshot' = snap
                      /\ UNCHANGED <<cancel_requested, stop_wait,
                                     stop_returned>>
                 ELSE CancelWorkers(snap)
  /\ UNCHANGED <<smvars, cbvars, ervars, qget, qconfig, qbatch, qtasks, qorder,
                 _workers, created, _queue, unfinished_tasks, _results, enq,
                 executed, full_at_call, late_enqueue>>

\* join() returned: every put item has been marked done.
stop_joined ==
  /\ stop_pc = "join"
  /\ unfinished_tasks = 0
  /\ CancelWorkers(stop_snapshot)
  /\ UNCHANGED <<smvars, cbvars, ervars, qget, qconfig, qcalls, qbatch, qpool,
                 qtasks,
                 qorder, _queue, unfinished_tasks, _results, enq, executed,
                 full_at_call, late_enqueue>>

\* gather() returned, all the tasks handed to it having ended:
\* `self._workers.clear()` empties whatever list self._workers is by then,
\* and stop returns.
stop_gathered ==
  /\ stop_pc = "gather"
  /\ Alive(stop_wait) = 0
  /\ _workers' = 0
  /\ stop_pc' = "idle"
  /\ stop_wait' = 0
  /\ stop_snapshot' = NoStop
  /\ stop_returned' = StopReport(stop_snapshot, 0)
  /\ UNCHANGED <<smvars, cbvars, ervars, qget, qconfig, qcalls, qbatch, qtasks,
                 qorder, _running, created, _queue, unfinished_tasks,
                 _results, enq, cancel_requested, executed, full_at_call,
                 late_enqueue>>

\* The tail of get_results: every stored entry is copied (entries written by
\* _worker are dicts whose values are no coroutines), then
\* `if specific_ids:` selects the requested ids that have an entry; None and
\* the empty list are both falsy and give the whole copy.  A mapping is kept
\* as a function on ItemIds with "none" for an absent key.
SelectResults(arg, results) ==
  IF arg.given /\ arg.ids # {}
  THEN [i \in ItemIds |-> IF i \in arg.ids THEN results[i] ELSE "none"]
  ELSE results

GetReturn(arg) ==
  /\ get_pc' = "idle"
  /\ get_arg' = NoneIds
  /\ get_returned' = [returned |-> TRUE, arg |-> arg,
                      drained |-> _queue = {}
                                  /\ \A i \in ItemIds : flight[i].pc = "none",
                      stored |-> _results,
                      value |-> SelectResults(arg, _results)]

\* get_results(specific_ids) up to its first suspension:
\* `await self._queue.join()` suspends only while unfinished tasks remain.
get_results(arg) ==
  /\ get_pc = "idle"
  /\ IF unfinished_tasks > 0
     THEN /\ get_pc' = "join"
          /\ get_arg' = arg
          /\ UNCHANGED get_returned
     ELSE GetReturn(arg)
  /\ UNCHANGED <<smvars, cbvars, ervars, qconfig, qcalls, qbatch, qpool, qtasks,
                 qstop, qorder, _queue, unfinished_tasks, _results, enq,
                 cancel_requested, executed, full_at_call, late_enqueue>>

\* join() returned; get_results builds its return value and returns.
get_results_joined ==
  /\ get_pc = "join"
  /\ unfinished_tasks = 0
  /\ GetReturn(get_arg)
  /\ UNCHANGED <<smvars, cbvars, ervars, qconfig, qcalls, qbatch, qpool, qtasks,
                 qstop, qorder, _queue, unfinished_tasks, _results, enq,
                 cancel_requested, executed, full_at_call, late_enqueue>>

\* ------------------------------------------------------- the batch variant
\* jsx_content_analyzer.py: a caller collects a batch from the priority
\* queue and processes it under the semaphore.

\* _collect_batch_from_priority_queue is called for batch b.
collect_batch_begin(b) ==
  /\ batches[b].pc = "idle"
  /\ batches' = [batches EXCEPT ![b].pc = "collect"]
  /\ UNCHANGED <<smvars, cbvars, ervars, qget, qconfig, qcalls, qpool, qtasks,
                 qstop,
                 qorder, batch_size, semaphore, _queue, unfinished_tasks,
                 _results, enq, cancel_requested, executed, full_at_call,
                 late_enqueue>>

\* One iteration of its loop: `await wait_for(self._queue.get(), 1.0)`
\* returns an item, which is appended; after batch_size items the batch is
\* returned.
_collect_batch_from_priority_queue(b) ==
  /\ batches[b].pc = "collect"
  /\ \E i \in HeapMin(_queue) :
       /\ _queue' = _queue \ {i}
       /\ batches' =
            [batches EXCEPT
               ![b].items = @ \cup {i},
               ![b].pc = IF Cardinality(batches[b].items) + 1 >= batch_size
                         THEN "collected" ELSE "collect"]
  /\ UNCHANGED <<smvars, cbvars, ervars, qget, qconfig, qcalls, qpool, qtasks,
                 qstop,
                 qorder, batch_size, semaphore, unfinished_tasks, _results,
                 enq, cancel_requested, executed, full_at_call, late_enqueue>>

\* The get timed out on an empty queue: `break`, the batch collected so far
\* is returned.
collect_batch_timeout(b) ==
  /\ batches[b].pc = "collect"
  /\ _queue = {}
  /\ batches' = [batches EXCEPT ![b].pc = "collected"]
  /\ UNCHANGED <<smvars, cbvars, ervars, qget, qconfig, qcalls, qpool, qtasks,
                 qstop,
                 qorder, batch_size, semaphore, _queue, unfinished_tasks,
                 _results, enq, cancel_requested, executed, full_at_call,
                 late_enqueue>>

\* Inside `async with self.semaphore`: one _execute_work_item_safe per item
\* is handed to gather.  gather() of no item returns at once, and the permit
\* is released in the same step.
BatchEnter(b) ==
  /\ IF batches[b].items = {}
     THEN /\ batches' = [batches EXCEPT ![b].pc = "done"]
          /\ UNCHANGED semaphore
     ELSE /\ batches' = [batches EXCEPT ![b].pc = "gather",
                                        ![b].running = batches[b].items]
          /\ semaphore' = semaphore - 1
  /\ executed' = [i \in ItemIds |->
                    IF i \in batches[b].items THEN executed[i] + 1
                    ELSE executed[i]]

\* Variant of _process_batch_with_semaphore that does not wait for a permit.
_process_batch_without_permit(b) ==
  /\ batches[b].pc = "collected"
  /\ BatchEnter(b)
  /\ UNCHANGED <<smvars, cbvars, ervars, qget, qconfig, qcalls, qpool, qtasks,
                 qstop,
                 qorder, batch_size, _queue, unfinished_tasks, _results, enq,
                 cancel_requested, full_at_call, late_enqueue>>

\* _process_batch_with_semaphore(batch b) up to its first suspension:
\* semaphore.acquire() suspends when no permit is left.
_process_batch_with_semaphore(b) ==
  /\ batches[b].pc = "collected"
  /\ IF semaphore > 0
     THEN BatchEnter(b)
     ELSE /\ batches' = [batches EXCEPT ![b].pc = "acquire"]
          /\ UNCHANGED <<semaphore, executed>>
  /\ UNCHANGED <<smvars, cbvars, ervars, qget, qconfig, qcalls, qpool, qtasks,
                 qstop,
                 qorder, batch_size, _queue, unfinished_tasks, _results, enq,
                 cancel_requested, full_at_call, late_enqueue>>

\* A release woke the suspended acquire().
semaphore_acquired(b) ==
  /\ batches[b].pc = "acquire"
  /\ semaphore > 0
  /\ BatchEnter(b)
  /\ UNCHANGED <<smvars, cbvars, ervars, qget, qconfig, qcalls, qpool, qtasks,
                 qstop,
                 qorder, batch_size, _queue, unfinished_tasks, _results, enq,
                 cancel_requested, full_at_call, late_enqueue>>

\* Variant of _execute_work_item_safe in which an item that raises takes its
\* siblings down with it: they end without an entry.
_execute_work_item_fail_fast(b, i, outcome) ==
  /\ batches[b].pc = "gather"
  /\ i \in batches[b].running
  /\ _results' = [_results EXCEPT ![i] = outcome]
  /\ behaviour' = [behaviour EXCEPT ![i] = outcome]
  /\ last_completed' = priority[i]
  /\ out_of_order' = (out_of_order \/ priority[i] < last_completed)
  /\ LET ended == IF outcome = "error" THEN batches[b].running ELSE {i}
     IN  /\ unfinished_tasks' = unfinished_tasks - Cardinality(ended)
         /\ batches' = [batches EXCEPT ![b].running = @ \ ended]
  /\ UNCHANGED <<smvars, cbvars, ervars, qget, qconfig, qcalls, qpool, qtasks,
                 qstop,
                 batch_size, semaphore, _queue, enq, cancel_requested,
                 executed, full_at_call, late_enqueue>>

\* _execute_work_item_safe(item i) of batch b ended: task_func returned
\* ("success"), exceeded item.timeout ("timeout") or raised ("error"); the
\* entry is stored, then `finally: self._queue.task_done()`.
_execute_work_item_safe(b, i, outcome) ==
  /\ batches[b].pc = "gather"
  /\ i \in batches[b].running
  /\ _results' = [_results EXCEPT ![i] = outcome]
  /\ behaviour' = [behaviour EXCEPT ![i] = outcome]
  /\ last_completed' = priority[i]
  /\ out_of_order' = (out_of_order \/ priority[i] < last_completed)
  /\ unfinished_tasks' = unfinished_tasks - 1
  /\ batches' = [batches EXCEPT ![b].running = @ \ {i}]
  /\ UNCHANGED <<smvars, cbvars, ervars, qget, qconfig, qcalls, qpool, qtasks,
                 qstop,
                 batch_size, semaphore, _queue, enq, cancel_requested,
                 executed, full_at_call, late_enqueue>>

\* gather returned, every item of the batch having ended: the `async with`
\* block releases the permit.
batch_gathered(b) ==
  /\ batches[b].pc = "gather"
  /\ batches[b].running = {}
  /\ batches' = [batches EXCEPT ![b].pc = "done"]
  /\ semaphore' = semaphore + 1
  /\ UNCHANGED <<smvars, cbvars, ervars, qget, qconfig, qcalls, qpool, qtasks,
                 qstop,
                 qorder, batch_size, _queue, unfinished_tasks, _results, enq,
                 cancel_requested, executed, full_at_call, late_enqueue>>

\* Batch workload: the items are enqueued (which starts the worker pool)
\* while callers collect and process batches; a plain worker may take an
\* item before a collector does.  Every task_func returns.
InitBatch ==
  /\ NewBreaker(1, 1, 1)
  /\ NewAgent("JSXContentAnalyzer")
  /\ NewSessionManager
  /\ \E mw \in 1..MaxPool, bs \in 1..MaxBatchSize :
        NewBatchQueue(mw, MaxItems, [i \in ItemIds |-> 1], bs)

NextBatch ==
  \/ \E i \in ItemIds : enqueue_work(i)
  \/ \E g \in Gens : WorkerGet(g)
  \/ \E i \in ItemIds : WorkerFinish(i, "success")
  \/ \E b \in Batches : collect_batch_begin(b)
  \/ \E b \in Batches : _collect_batch_from_priority_queue(b)
  \/ \E b \in Batches : collect_batch_timeout(b)
  \/ \E b \in Batches : _process_batch_with_semaphore(b)
  \/ \E b \in Batches : semaphore_acquired(b)
  \/ \E b \in Batches, i \in ItemIds :
       _execute_work_item_safe(b, i, "success")
  \/ \E b \in Batches : batch_gathered(b)

SpecBatch == InitBatch /\ [][NextBatch]_vars

\* Single-batch workload: one caller collects a batch and processes it, the
\* items ending in any of the three ways.
InitOneBatch ==
  /\ NewBreaker(1, 1, 1)
  /\ NewAgent("JSXContentAnalyzer")
  /\ NewSessionManager
  /\ \E bs \in 1..MaxBatchSize :
        NewBatchQueue(1, MaxItems, [i \in ItemIds |-> 1], bs)

NextOneBatch ==
  \/ \E i \in ItemIds : enqueue_work(i)
  \/ \E g \in Gens : WorkerGet(g)
  \/ \E i \in ItemIds, o \in Statuses : WorkerFinish(i, o)
  \/ collect_batch_begin(1)
  \/ _collect_batch_from_priority_queue(1)
  \/ collect_batch_timeout(1)
  \/ _process_batch_with_semaphore(1)
  \/ \E i \in ItemIds, o \in Statuses : _execute_work_item_safe(1, i, o)
  \/ batch_gathered(1)

SpecOneBatch == InitOneBatch /\ [][NextOneBatch]_vars

\* Dequeue workload: items of any priorities are enqueued while the single
\* worker and one batch collector take them from the queue.
InitDequeue ==
  /\ NewBreaker(1, 1, 1)
  /\ NewAgent("JSXContentAnalyzer")
  /\ NewSessionManager
  /\ \E prio \in [ItemIds -> Priorities], bs \in 1..MaxBatchSize :
        NewBatchQueue(1, MaxItems, prio, bs)

NextDequeue ==
  \/ \E i \in ItemIds : enqueue_work(i)
  \/ \E g \in Gens : WorkerGet(g)
  \/ \E i \in ItemIds : WorkerFinish(i, "success")
  \/ collect_batch_begin(1)
  \/ _collect_batch_from_priority_queue(1)
  \/ collect_batch_timeout(1)

SpecDequeue == InitDequeue /\ [][NextDequeue]_vars

\* Lifecycle workload: items of one priority, any pool size and capacity.
InitQ ==
  /\ NewBreaker(1, 1, 1)
  /\ NewAgent("JSXCreatorAgent")
  /\ NewSessionManager
  /\ \E mw \in 1..MaxPool, size \in 1..MaxCap :
        NewQueue(mw, size, [i \in ItemIds |-> 1])

NextQ ==
  \/ start
  \/ \E i \in ItemIds : enqueue_work(i)
  \/ \E i \in ItemIds : enqueue_resume(i)
  \/ \E g \in Gens : WorkerGet(g)
  \/ \E g \in Gens : WorkerIdleExit(g)
  \/ \E i \in ItemIds, o \in Statuses \cup {"nested"} : WorkerFinish(i, o)
  \/ \E i \in ItemIds, o \in Statuses : WorkerNestedFinish(i, o)
  \/ \E g \in Gens : WorkerCancelledIdle(g)
  \/ \E i \in ItemIds : WorkerCancelledRunning(i)
  \/ \E g \in BOOLEAN : stop(g)
  \/ stop_joined
  \/ stop_gathered

SpecQ == InitQ /\ [][NextQ]_vars

\* Priority workload: one worker, room for every item, any priorities, no
\* stop().
InitPrio ==
  /\ NewBreaker(1, 1, 1)
  /\ NewAgent("JSXCreatorAgent")
  /\ NewSessionManager
  /\ \E prio \in [ItemIds -> Priorities] : NewQueue(1, MaxItems, prio)

NextPrio ==
  \/ \E i \in ItemIds : enqueue_work(i)
  \/ \E g \in Gens : WorkerGet(g)
  \/ \E i \in ItemIds, o \in Statuses \cup {"nested"} : WorkerFinish(i, o)
  \/ \E i \in ItemIds, o \in Statuses : WorkerNestedFinish(i, o)

SpecPrio == InitPrio /\ [][NextPrio]_vars

\* Start/stop workload: start() and stop() calls in any order and number
\* while the pool processes the first MaxLifeItems items.
InitLife ==
  /\ NewBreaker(1, 1, 1)
  /\ NewAgent("JSXCreatorAgent")
  /\ NewSessionManager
  /\ \E mw \in 1..MaxPool : NewQueue(mw, MaxItems, [i \in ItemIds |-> 1])

NextLife ==
  \/ start
  \/ \E g \in BOOLEAN : stop(g)
  \/ stop_joined
  \/ stop_gathered
  \/ \E i \in 1..MaxLifeItems : enqueue_work(i)
  \/ \E g \in Gens : WorkerGet(g)
  \/ \E g \in Gens : WorkerIdleExit(g)
  \/ \E i \in ItemIds, o \in Statuses : WorkerFinish(i, o)
  \/ \E g \in Gens : WorkerCancelledIdle(g)
  \/ \E i \in ItemIds : WorkerCancelledRunning(i)

SpecLife == InitLife /\ [][NextLife]_vars

\* Drain workload: the start/stop workload with a caller that asks for
\* results.  The event loop runs every task that is ready, so each step of a
\* worker task, of a suspended stop() and of a suspended get_results() is
\* taken once it stays possible; every item's callable ends (WorkerFinish).
\* The callers' own calls (enqueue_work, start, stop, get_results) are not
\* forced.
NextDrain ==
  \/ start
  \/ \E g \in BOOLEAN : stop(g)
  \/ stop_joined
  \/ stop_gathered
  \/ \E i \in 1..MaxLifeItems : enqueue_work(i)
  \/ \E g \in Gens : WorkerGet(g)
  \/ \E g \in Gens : WorkerIdleExit(g)
  \/ \E i \in ItemIds, o \in Statuses : WorkerFinish(i, o)
  \/ \E g \in Gens : WorkerCancelledIdle(g)
  \/ \E i \in ItemIds : WorkerCancelledRunning(i)
  \/ get_results(NoneIds)
  \/ get_results_joined

LoopRuns ==
  /\ WF_vars(\E g \in Gens : WorkerGet(g))
  /\ WF_vars(\E g \in Gens : WorkerIdleExit(g))
  /\ WF_vars(\E i \in ItemIds, o \in Statuses : WorkerFinish(i, o))
  /\ WF_vars(\E g \in Gens : WorkerCancelledIdle(g))
  /\ WF_vars(\E i \in ItemIds : WorkerCancelledRunning(i))
  /\ WF_vars(stop_joined)
  /\ WF_vars(stop_gathered)
  /\ WF_vars(get_results_joined)

SpecDrain == InitLife /\ [][NextDrain]_vars /\ LoopRuns

\* Result-collection workload: the pool processes the items while a caller
\* asks for results.
NextGet ==
  \/ \E i \in ItemIds : enqueue_work(i)
  \/ \E i \in ItemIds : enqueue_resume(i)
  \/ \E g \in Gens : WorkerGet(g)
  \/ \E i \in ItemIds, o \in Statuses \cup {"nested"} : WorkerFinish(i, o)
  \/ \E i \in ItemIds, o \in Statuses : WorkerNestedFinish(i, o)
  \/ \E arg \in IdsArgs : get_results(arg)
  \/ get_results_joined

SpecGet == InitQ /\ [][NextGet]_vars

\* Completion workload: the first MaxLifeItems items are enqueued, taken by
\* the workers or collected into a batch, and end in every way there is;
\* stop() cancels the workers at any moment.
InitDone ==
  /\ NewBreaker(1, 1, 1)
  /\ NewAgent("JSXContentAnalyzer")
  /\ NewSessionManager
  /\ \E bs \in 1..MaxBatchSize :
        NewBatchQueue(1, MaxItems, [i \in ItemIds |-> 1], bs)

NextDone ==
  \/ \E i \in 1..MaxLifeItems : enqueue_work(i)
  \/ \E g \in Gens : WorkerGet(g)
  \/ \E g \in Gens : WorkerIdleExit(g)
  \/ \E i \in ItemIds, o \in Statuses \cup {"nested"} : WorkerFinish(i, o)
  \/ \E i \in ItemIds, o \in Statuses : WorkerNestedFinish(i, o)
  \/ \E g \in Gens : WorkerCancelledIdle(g)
  \/ \E i \in ItemIds : WorkerCancelledRunning(i)
  \/ stop(FALSE)
  \/ stop_gathered
  \/ collect_batch_begin(1)
  \/ _collect_batch_from_priority_queue(1)
  \/ collect_batch_timeout(1)
  \/ _process_batch_with_semaphore(1)
  \/ \E i \in ItemIds, o \in Statuses : _execute_work_item_safe(1, i, o)
  \/ batch_gathered(1)

SpecDone == InitDone /\ [][NextDone]_vars

\* ------------------------------------------ BaseAsyncAgent resilient executor
\* One execute_with_resilience call on the agent's own circuit breaker,
\* followed from its start to its end.  The call's steps between two
\* suspensions are atomic.

TaskKinds == {"callable", "coroutine", "future"}

RECURSIVE Pow(_, _)
\* backoff_factor ** k
Pow(b, k) == IF k <= 0 THEN 1 ELSE b * Pow(b, k - 1)

\* The call ends, returning or raising r.
ER_End(r) ==
  /\ er_pc' = "done"
  /\ er_ret' = r

\* After the loop: `if last_exception: raise last_exception`, else the
\* generic exhaustion error.
ER_Exhausted(exc) ==
  ER_End([kind |-> "raise",
          val |-> IF exc # NoneExc THEN exc ELSE ExhaustedError])

\* Variant of ER_RetryOrExhaust whose sleep is backoff_factor ** current_retry
\* (no `- 1`).
ER_RetryOrExhaust_late_power(exc) ==
  /\ last_exception' = exc
  /\ current_retry' = current_retry + 1
  /\ IF current_retry + 1 <= max_retries
     THEN /\ sleeps' = Append(sleeps, Pow(backoff_factor, current_retry + 1))
          /\ er_pc' = "sleeping"
          /\ UNCHANGED er_ret
     ELSE /\ ER_Exhausted(exc)
          /\ UNCHANGED sleeps

\* Variant of ER_RetryOrExhaust that gives up one attempt early (< for <=).
ER_RetryOrExhaust_one_short(exc) ==
  /\ last_exception' = exc
  /\ current_retry' = current_retry + 1
  /\ IF current_retry + 1 < max_retries
     THEN /\ sleeps' = Append(sleeps, Pow(backoff_factor, current_retry))
          /\ er_pc' = "sleeping"
          /\ UNCHANGED er_ret
     ELSE /\ ER_Exhausted(exc)
          /\ UNCHANGED sleeps

\* Variant of ER_RetryOrExhaust that returns the fallback value when the
\* retries are exhausted.
ER_RetryOrExhaust_fallback(exc) ==
  /\ last_exception' = exc
  /\ current_retry' = current_retry + 1
  /\ IF current_retry + 1 <= max_retries
     THEN /\ sleeps' = Append(sleeps, Pow(backoff_factor, current_retry))
          /\ er_pc' = "sleeping"
          /\ UNCHANGED er_ret
     ELSE /\ ER_End([kind |-> "return", val |-> FALLBACK_RESULT])
          /\ UNCHANGED sleeps

\* The tail of a loop iteration whose attempt ended with the retryable
\* exception exc: current_retry += 1, then either the backoff sleep
\* backoff_factor ** (current_retry - 1), or the loop test fails and the
\* last exception is raised.
ER_RetryOrExhaust(exc) ==
  /\ last_exception' = exc
  /\ current_retry' = current_retry + 1
  /\ IF current_retry + 1 <= max_retries
     THEN /\ sleeps' = Append(sleeps, Pow(backoff_factor, current_retry))
          /\ er_pc' = "sleeping"
          /\ UNCHANGED er_ret
     ELSE /\ ER_Exhausted(exc)
          /\ UNCHANGED sleeps

\* `except RecursionError`: the sync-mode flag is set and the error raised.
ER_RecursionStop ==
  /\ last_exception' = RecursionError
  /\ fallback_to_sync' = TRUE
  /\ ER_End([kind |-> "raise", val |-> RecursionError])
  /\ UNCHANGED <<current_retry, sleeps>>

\* execute_with_resilience(task_func, max_retries=mr, backoff_factor=bf)
\* is called: a coroutine or future is awaited directly; a callable enters
\* the retry loop, which a negative max_retries skips altogether.
execute_with_resilience(kind, mr, bf) ==
  /\ er_pc = "idle"
  /\ er_kind' = kind
  /\ max_retries' = mr
  /\ backoff_factor' = bf
  /\ current_retry' = 0
  /\ current_timeout' = InitialTimeout
  /\ last_exception' = NoneExc
  /\ er_trace' = <<>>
  /\ er_invocations' = 0
  /\ op_value' = "none"
  /\ sleeps' = <<>>
  /\ IF kind # "callable"
     THEN /\ er_pc' = "pending"
          /\ er_ret' = NoRet
     ELSE IF 0 <= mr
          THEN /\ er_pc' = "attempt"
               /\ er_ret' = NoRet
          ELSE ER_Exhausted(NoneExc)
  /\ UNCHANGED <<smvars, cbvars, qvars, agent_class, entry_call,
                 attempt_start, fallback_call, fallback_to_sync,
                 execution_stats, reset_ret, clear_scheduled>>

\* BaseAsyncAgent._get_fallback_result; the override of JSXCreatorAgent
\* counts the use.
_get_fallback_result(stats) ==
  IF agent_class = "JSXCreatorAgent"
  THEN [stats EXCEPT !.fallback_used = @ + 1]
  ELSE stats

\* The awaited coroutine or future completed with value r.
ER_PendingReturn(r) ==
  /\ er_pc = "pending"
  /\ op_value' = r
  /\ er_trace' = Append(er_trace, "return")
  /\ ER_End([kind |-> "return", val |-> r])
  /\ UNCHANGED <<smvars, cbvars, qvars, agent_class, entry_call,
                 attempt_start, fallback_call, fallback_to_sync,
                 execution_stats, er_kind, max_retries, backoff_factor,
                 current_retry, current_timeout, last_exception,
                 er_invocations, sleeps, reset_ret, clear_scheduled>>

\* Variant of ER_PendingFail that lets the exception out.
ER_PendingFail_raise(e) ==
  /\ er_pc = "pending"
  /\ er_trace' = Append(er_trace, IF e = TimeoutError THEN "timeout"
                                  ELSE "raise")
  /\ ER_End([kind |-> "raise", val |-> e])
  /\ UNCHANGED <<smvars, cbvars, qvars, agent_class, entry_call,
                 attempt_start, fallback_call, fallback_to_sync,
                 execution_stats, er_kind, max_retries, backoff_factor,
                 current_retry, current_timeout, last_exception,
                 er_invocations, op_value, sleeps, reset_ret, clear_scheduled>>

\* The awaited coroutine or future raised e, or wait_for timed out
\* (e = TimeoutError): `except Exception` returns the fallback result.
ER_PendingFail(e) ==
  /\ er_pc = "pending"
  /\ er_trace' = Append(er_trace, IF e = TimeoutError THEN "timeout"
                                  ELSE "raise")
  /\ execution_stats' = _get_fallback_result(execution_stats)
  /\ ER_End([kind |-> "return", val |-> FALLBACK_RESULT])
  /\ UNCHANGED <<smvars, cbvars, qvars, agent_class, entry_call,
                 attempt_start, fallback_call, fallback_to_sync,
                 er_kind, max_retries, backoff_factor, current_retry,
                 current_timeout, last_exception, er_invocations, op_value,
                 sleeps, reset_ret, clear_scheduled>>

\* What every step of the retry loop leaves alone.
ER_Frame ==
  UNCHANGED <<agent_class, entry_call, attempt_start, fallback_call, er_kind,
              max_retries,
              backoff_factor, reset_ret, clear_scheduled, calls>>

\* What the head of the loop body leaves alone.
AttemptFrame ==
  UNCHANGED <<agent_class, entry_call, fallback_call, er_kind, max_retries,
              backoff_factor, reset_ret, clear_scheduled, calls>>

\* Variant of ER_Attempt in which a rejection by the breaker ends the call
\* at once.
ER_Attempt_reject_raises(deep) ==
  /\ er_pc = "attempt"
  /\ IF deep
     THEN /\ er_trace' = Append(er_trace, "deep")
          /\ ER_RecursionStop
          /\ UNCHANGED <<smvars, cbvars, qvars, execution_stats, er_invocations,
                         attempt_start>>
     ELSE LET b2 == state(Fresh(circuit_breaker), now)
          IN  /\ attempt_start' = [made |-> TRUE,
                                    breaker |-> Fresh(circuit_breaker),
                                    at |-> now]
              /\ IF b2.state = OPEN
                  THEN /\ ObserveBreaker("execute_reject", b2,
                            [kind |-> "raise", val |-> CircuitBreakerOpenError],
                            FALSE, NoRet)
                       /\ execution_stats' =
                            [execution_stats EXCEPT
                               !.circuit_breaker_triggered = @ + 1]
                       /\ er_trace' = Append(er_trace, "rejected")
                       /\ last_exception' = CircuitBreakerOpenError
                       /\ ER_End([kind |-> "raise",
                                  val |-> CircuitBreakerOpenError])
                       /\ UNCHANGED <<fallback_to_sync, er_invocations,
                                      current_retry, sleeps>>
                  ELSE /\ ObserveBreaker("execute_admit", b2, NoRet, TRUE,
                                         NoRet)
                       /\ er_pc' = "running"
                       /\ er_invocations' = er_invocations + 1
                       /\ UNCHANGED <<fallback_to_sync, execution_stats,
                                      er_trace, last_exception,
                                      current_retry, sleeps, er_ret>>
  /\ AttemptFrame
  /\ UNCHANGED <<current_timeout, op_value>>

\* One pass through the head of the loop body.  deep: the call depth is at
\* or above sys.getrecursionlimit() - _recursion_check_buffer, and the
\* preemptive RecursionError is raised.  Otherwise CircuitBreaker.execute
\* starts under wait_for(current_timeout): an OPEN breaker rejects the
\* attempt (counted, then the retry path), any other state invokes the
\* operation.
ER_Attempt(deep) ==
  /\ er_pc = "attempt"
  /\ IF deep
     THEN /\ er_trace' = Append(er_trace, "deep")
          /\ ER_RecursionStop
          /\ UNCHANGED <<smvars, cbvars, qvars, execution_stats, er_invocations,
                         attempt_start>>
     ELSE LET b2 == state(Fresh(circuit_breaker), now)
          IN  /\ attempt_start' = [made |-> TRUE,
                                    breaker |-> Fresh(circuit_breaker),
                                    at |-> now]
              /\ IF b2.state = OPEN
                  THEN /\ ObserveBreaker("execute_reject", b2,
                            [kind |-> "raise", val |-> CircuitBreakerOpenError],
                            FALSE, NoRet)
                       /\ execution_stats' =
                            [execution_stats EXCEPT
                               !.circuit_breaker_triggered = @ + 1]
                       /\ er_trace' = Append(er_trace, "rejected")
                       /\ ER_RetryOrExhaust(CircuitBreakerOpenError)
                       /\ UNCHANGED <<fallback_to_sync, er_invocations>>
                  ELSE /\ ObserveBreaker("execute_admit", b2, NoRet, TRUE,
                                         NoRet)
                       /\ er_pc' = "running"
                       /\ er_invocations' = er_invocations + 1
                       /\ UNCHANGED <<fallback_to_sync, execution_stats,
                                      er_trace, last_exception,
                                      current_retry, sleeps, er_ret>>
  /\ AttemptFrame
  /\ UNCHANGED <<current_timeout, op_value>>

\* The operation completed with value r: the breaker records the success
\* and the call returns r.
ER_OpReturn(r) ==
  /\ er_pc = "running"
  /\ ObserveBreaker("execute_return",
                    record_success(Fresh(circuit_breaker), now),
                    [kind |-> "return", val |-> r], FALSE,
                    [kind |-> "return", val |-> r])
  /\ op_value' = r
  /\ er_trace' = Append(er_trace, "return")
  /\ ER_End([kind |-> "return", val |-> r])
  /\ ER_Frame
  /\ UNCHANGED <<fallback_to_sync, execution_stats, er_invocations,
                 last_exception, current_retry, current_timeout, sleeps>>

\* The operation raised e: the breaker records the failure and re-raises,
\* `except Exception` of the loop keeps it and goes to the retry path.
ER_OpRaise(e) ==
  /\ er_pc = "running"
  /\ ObserveBreaker("execute_raise",
                    record_failure(Fresh(circuit_breaker), now),
                    [kind |-> "raise", val |-> e], FALSE,
                    [kind |-> "raise", val |-> e])
  /\ er_trace' = Append(er_trace, "raise")
  /\ ER_RetryOrExhaust(e)
  /\ ER_Frame
  /\ UNCHANGED <<fallback_to_sync, execution_stats, er_invocations,
                 current_timeout, op_value>>

\* Variant of ER_OpRecursion that treats the RecursionError like any other
\* exception.
ER_OpRecursion_retry ==
  /\ er_pc = "running"
  /\ ObserveBreaker("execute_raise",
                    record_failure(Fresh(circuit_breaker), now),
                    [kind |-> "raise", val |-> RecursionError], FALSE,
                    [kind |-> "raise", val |-> RecursionError])
  /\ er_trace' = Append(er_trace, "recursion")
  /\ ER_RetryOrExhaust(RecursionError)
  /\ ER_Frame
  /\ UNCHANGED <<fallback_to_sync, execution_stats, er_invocations,
                 current_timeout, op_value>>

\* The operation raised RecursionError: the breaker records the failure and
\* re-raises, `except RecursionError` of the loop stops the call.
ER_OpRecursion ==
  /\ er_pc = "running"
  /\ ObserveBreaker("execute_raise",
                    record_failure(Fresh(circuit_breaker), now),
                    [kind |-> "raise", val |-> RecursionError], FALSE,
                    [kind |-> "raise", val |-> RecursionError])
  /\ er_trace' = Append(er_trace, "recursion")
  /\ ER_RecursionStop
  /\ ER_Frame
  /\ UNCHANGED <<execution_stats, er_invocations,
                 current_timeout, op_value>>

\* Variant of ER_OpTimeout that does not count the timeout.
ER_OpTimeout_uncounted ==
  /\ er_pc = "running"
  /\ ObserveBreaker("execute_cancelled", Fresh(circuit_breaker),
                    [kind |-> "raise", val |-> "CancelledError"], FALSE,
                    NoRet)
  /\ er_trace' = Append(er_trace, "timeout")
  /\ ER_RetryOrExhaust(TimeoutError)
  /\ ER_Frame
  /\ UNCHANGED <<fallback_to_sync, er_invocations, execution_stats,
                 current_timeout, op_value>>

\* Variant of ER_OpTimeout in which CircuitBreaker.execute catches the
\* cancellation and records a failure.
ER_OpTimeout_recorded ==
  /\ er_pc = "running"
  /\ ObserveBreaker("execute_cancelled",
                    record_failure(Fresh(circuit_breaker), now),
                    [kind |-> "raise", val |-> "CancelledError"], FALSE,
                    NoRet)
  /\ execution_stats' = [execution_stats EXCEPT !.timeout_occurred = @ + 1]
  /\ er_trace' = Append(er_trace, "timeout")
  /\ ER_RetryOrExhaust(TimeoutError)
  /\ ER_Frame
  /\ UNCHANGED <<fallback_to_sync, er_invocations,
                 current_timeout, op_value>>

\* wait_for(current_timeout) expired: the execute coroutine is cancelled
\* (nothing is recorded by the breaker) and TimeoutError reaches the loop.
ER_OpTimeout ==
  /\ er_pc = "running"
  /\ ObserveBreaker("execute_cancelled", Fresh(circuit_breaker),
                    [kind |-> "raise", val |-> "CancelledError"], FALSE,
                    NoRet)
  /\ execution_stats' = [execution_stats EXCEPT !.timeout_occurred = @ + 1]
  /\ er_trace' = Append(er_trace, "timeout")
  /\ ER_RetryOrExhaust(TimeoutError)
  /\ ER_Frame
  /\ UNCHANGED <<fallback_to_sync, er_invocations,
                 current_timeout, op_value>>

\* Variant of ER_Wake that keeps the timeout of the previous attempt.
ER_Wake_same_timeout ==
  /\ er_pc = "sleeping"
  /\ er_pc' = "attempt"
  /\ ER_Frame
  /\ UNCHANGED <<smvars, cbvars_but_calls, qvars, fallback_to_sync,
                 execution_stats,
                 er_trace, er_invocations, op_value, sleeps,
                 er_ret, last_exception, current_retry, current_timeout>>

\* The backoff sleep is over: `current_timeout *= backoff_factor`, and the
\* loop test, which holds, leads to the next attempt.
ER_Wake ==
  /\ er_pc = "sleeping"
  /\ er_pc' = "attempt"
  /\ current_timeout' = current_timeout * backoff_factor
  /\ ER_Frame
  /\ UNCHANGED <<smvars, cbvars_but_calls, qvars, fallback_to_sync,
                 execution_stats,
                 er_trace, er_invocations, op_value, sleeps,
                 er_ret, last_exception, current_retry>>

\* The breaker after failure_threshold failures recorded at StartTime.
TrippedBreaker(ft) ==
  [InitBreaker EXCEPT !.state = OPEN, !.failure_count = ft,
                      !.last_failure_time = StartTime]

\* Executor workload: a call of any kind, on a breaker that is new or has
\* just been tripped by earlier calls, the clock running.
InitER ==
  /\ \E ft \in 1..MaxThreshold, tripped \in BOOLEAN :
        /\ failure_threshold = ft
        /\ recovery_timeout = 1
        /\ half_open_attempts = 1
        /\ circuit_breaker = IF tripped THEN TrippedBreaker(ft)
                                         ELSE InitBreaker
        /\ pre = circuit_breaker
        /\ streakF = IF tripped THEN -1 ELSE 0
  /\ now = StartTime
  /\ calls = [c \in CallIds |-> "idle"]
  /\ lastOp = "init"
  /\ ret = NoRet
  /\ invoked = FALSE
  /\ opOutcome = NoRet
  /\ streakS = -1
  /\ NewQueue(1, 1, [i \in ItemIds |-> 1])
  /\ \E cls \in AgentClasses : NewAgent(cls)
  /\ NewSessionManager

NextER ==
  \/ Tick
  \/ \E kind \in TaskKinds, mr \in -1..MaxRetries, bf \in 1..MaxBackoff :
       execute_with_resilience(kind, mr, bf)
  \/ \E deep \in BOOLEAN : ER_Attempt(deep)
  \/ \E r \in Results : ER_OpReturn(r)
  \/ \E e \in Exceptions : ER_OpRaise(e)
  \/ ER_OpRecursion
  \/ ER_OpTimeout
  \/ ER_Wake
  \/ \E r \in Results : ER_PendingReturn(r)
  \/ \E e \in Exceptions \cup {TimeoutError, RecursionError} :
       ER_PendingFail(e)

SpecER == InitER /\ [][NextER]_vars

\* Attempt workload: earlier calls have driven the breaker to any state
\* (DriveFailure, DriveSuccess, the clock), and one execute_with_resilience
\* call makes its attempts; nothing else uses the breaker while an attempt
\* is running.
DriveFailure == er_pc # "running" /\ RecordFailure
DriveSuccess == er_pc # "running" /\ RecordSuccess

InitAttempt ==
  /\ \E ft \in 1..2, hoa \in 1..MaxHalfOpen : NewBreaker(ft, 1, hoa)
  /\ NewQueue(1, 1, [i \in ItemIds |-> 1])
  /\ NewAgent("JSXCreatorAgent")
  /\ NewSessionManager

NextAttempt ==
  \/ Tick
  \/ DriveFailure
  \/ DriveSuccess
  \/ \E mr \in 0..1 : execute_with_resilience("callable", mr, 1)
  \/ ER_Attempt(FALSE)
  \/ ER_OpReturn("r1")
  \/ ER_OpRaise("e1")
  \/ ER_OpTimeout
  \/ ER_Wake

SpecAttempt == InitAttempt /\ [][NextAttempt]_vars

\* ------------------------------------------------------- reset_system_state

qvars_but_results ==
  <<_max_workers, max_queue_size, _running, _workers, _queue,
    unfinished_tasks, priority, enq, idle, flight, cancel_requested, created,
    stop_pc, stop_wait, stop_snapshot, stop_returned, get_pc, get_arg,
    get_returned, executed, behaviour, last_completed, out_of_order,
    full_at_call, late_enqueue, lifecycle, batch_size, semaphore, batches>>

ervars_but_stats ==
  <<agent_class, entry_call, attempt_start, fallback_call, fallback_to_sync,
    er_pc, er_kind, max_retries,
    backoff_factor, current_retry, current_timeout, last_exception, er_trace,
    er_invocations, op_value, sleeps, er_ret, reset_ret, clear_scheduled>>

\* History of a reset_system_state call that left the breaker as b2.
ObserveReset(b2) ==
  /\ ObserveBreaker("reset_system_state", b2, NoRet, FALSE, NoRet)
  /\ UNCHANGED <<calls, agent_class, entry_call, attempt_start, fallback_call,
                 er_pc, er_kind,
                 max_retries, backoff_factor, current_retry, current_timeout,
                 last_exception, er_trace, er_invocations, op_value, sleeps,
                 er_ret>>

\* Variant of reset_system_state that closes the breaker and leaves its
\* counts.
reset_system_state_keeps_counts(loop_running) ==
  /\ clear_scheduled < MaxStat
  /\ ObserveReset([Fresh(circuit_breaker) EXCEPT !.state = CLOSED])
  /\ fallback_to_sync' = FALSE
  /\ IF loop_running
     THEN /\ clear_scheduled' = clear_scheduled + 1
          /\ execution_stats' = NoStats
          /\ reset_ret' = [kind |-> "return", val |-> "None"]
     ELSE /\ reset_ret' = [kind |-> "raise", val |-> RuntimeError]
          /\ UNCHANGED <<execution_stats, clear_scheduled>>

\* reset_system_state of the agent's class.
\* JSXCreatorAgent: _reset_counts(), _state = CLOSED, the flag, then
\* asyncio.create_task(clear_results()), which raises RuntimeError when no
\* event loop is running (loop_running = FALSE), then the counters.
\* JSXContentAnalyzer: sets an attribute failure_count (not _failure_count),
\* then assigns to the read-only property state, which raises
\* AttributeError before anything else is reset.
reset_system_state(loop_running) ==
  /\ clear_scheduled < MaxStat
  /\ IF agent_class = "JSXContentAnalyzer"
     THEN /\ ObserveReset(Fresh(circuit_breaker))
          /\ reset_ret' = [kind |-> "raise", val |-> AttributeError]
          /\ UNCHANGED <<fallback_to_sync, execution_stats, clear_scheduled>>
     ELSE /\ ObserveReset([_reset_counts(Fresh(circuit_breaker))
                             EXCEPT !.state = CLOSED])
          /\ fallback_to_sync' = FALSE
          /\ IF loop_running
             THEN /\ clear_scheduled' = clear_scheduled + 1
                  /\ execution_stats' = NoStats
                  /\ reset_ret' = [kind |-> "return", val |-> "None"]
             ELSE /\ reset_ret' = [kind |-> "raise", val |-> RuntimeError]
                  /\ UNCHANGED <<execution_stats, clear_scheduled>>

\* AsyncWorkQueue.clear_results, run as the task that reset created.
clear_results ==
  /\ clear_scheduled > 0
  /\ clear_scheduled' = clear_scheduled - 1
  /\ _results' = [i \in ItemIds |-> "none"]
  /\ UNCHANGED <<smvars, cbvars, qvars_but_results, agent_class, entry_call,
                 attempt_start, fallback_call,
                 fallback_to_sync, execution_stats, er_pc, er_kind,
                 max_retries, backoff_factor, current_retry, current_timeout,
                 last_exception, er_trace, er_invocations, op_value, sleeps,
                 er_ret, reset_ret>>

\* _should_use_sync with the call depth at the limit: the flag is set.
SetSyncMode ==
  /\ ~fallback_to_sync
  /\ fallback_to_sync' = TRUE
  /\ UNCHANGED <<smvars, cbvars, qvars, agent_class, entry_call,
                 attempt_start, fallback_call, execution_stats,
                 er_pc, er_kind, max_retries, backoff_factor, current_retry,
                 current_timeout, last_exception, er_trace, er_invocations,
                 op_value, sleeps, er_ret, reset_ret, clear_scheduled>>

\* One of the agent's entry points bumps counter k.
BumpStat(k) ==
  /\ execution_stats[k] < MaxStat
  /\ execution_stats' = [execution_stats EXCEPT ![k] = @ + 1]
  /\ UNCHANGED <<smvars, cbvars, qvars, ervars_but_stats>>

\* ------------------------------------------------- _get_fallback_result
\* A task id is the sequence of its fields between underscores.
TaskIds == {<<"content", "analysis", "3">>, <<"content", "analysis", "x">>,
            <<"my", "content", "analysis", "7">>, <<"jsx", "1">>}

\* `"content_analysis_" in task_id`
HasAnalysisPrefix(t) ==
  \E k \in 1..Len(t) :
    k + 1 < Len(t) /\ t[k] = "content" /\ t[k + 1] = "analysis"

\* int(field): the value, or -1 where int() raises ValueError.
IntOf(f) == IF f = "1" THEN 1 ELSE IF f = "3" THEN 3
            ELSE IF f = "7" THEN 7 ELSE -1

\* JSXContentAnalyzer: int(task_id.split("_")[2]) inside try/except, 0 when
\* the prefix is absent or the parse raises.
SectionIndex(t) ==
  IF HasAnalysisPrefix(t) /\ Len(t) >= 3 /\ IntOf(t[3]) >= 0
  THEN IntOf(t[3]) ELSE 0

\* The value _get_fallback_result(task_id) of class cls returns.
FallbackValue(cls, t) ==
  IF cls = "JSXCreatorAgent"
  THEN [component_name |-> "FallbackComponent",
        jsx_code |-> <<"// Fallback component for ", t>>,
        status |-> "fallback", task_id |-> t]
  ELSE IF cls = "JSXContentAnalyzer"
       THEN [recommended_layout |-> "grid", section_index |-> SectionIndex(t),
             fallback_mode |-> TRUE]
       ELSE [text |-> <<"FALLBACK_RESULT_FOR_", t>>]

\* A caller calls self._get_fallback_result(task_id).
call_get_fallback_result(t) ==
  /\ execution_stats.fallback_used < MaxFallbacks
  /\ fallback_call' = [made |-> TRUE, task_id |-> t,
                       value |-> FallbackValue(agent_class, t),
                       n |-> 1 - fallback_call.n]
  /\ execution_stats' = _get_fallback_result(execution_stats)
  /\ UNCHANGED <<smvars, cbvars, qvars, agent_class, entry_call, attempt_start,
                 fallback_to_sync, er_pc, er_kind,
                 max_retries, backoff_factor, current_retry, current_timeout,
                 last_exception, er_trace, er_invocations, op_value, sleeps,
                 er_ret, reset_ret, clear_scheduled>>

\* The counters that the entry points bump themselves (generate_jsx_
\* components_async, _generate_jsx_components_batch_mode).
EntryStats == {"total_attempts", "successful_executions"}

\* Fallback workload: an agent of either class or of the base class, whose
\* breaker, flag and counters are driven to any state, is asked for
\* fallback results.
InitFallback ==
  /\ NewBreaker(2, 1, 1)
  /\ NewQueue(1, 1, [i \in ItemIds |-> 1])
  /\ \E cls \in AgentClasses \cup {"BaseAsyncAgent"} : NewAgent(cls)
  /\ NewSessionManager

NextFallback ==
  \/ RecordFailure
  \/ RecordSuccess
  \/ SetSyncMode
  \/ \E k \in EntryStats : BumpStat(k)
  \/ \E t \in TaskIds : call_get_fallback_result(t)

SpecFallback == InitFallback /\ [][NextFallback]_vars

\* Counter workload: one execute_with_resilience call on a breaker that
\* opens at the first failure, while the entry points bump their counters,
\* ask for fallback results and reset the system state.
InitStats ==
  /\ NewBreaker(1, 1, 1)
  /\ NewQueue(1, 1, [i \in ItemIds |-> 1])
  /\ \E cls \in AgentClasses : NewAgent(cls)
  /\ NewSessionManager

NextStats ==
  \/ \E kind \in TaskKinds, mr \in 0..MaxRetries :
       execute_with_resilience(kind, mr, 1)
  \/ \E deep \in BOOLEAN : ER_Attempt(deep)
  \/ ER_OpReturn("r1")
  \/ ER_OpRaise("e1")
  \/ ER_OpRecursion
  \/ ER_OpTimeout
  \/ ER_Wake
  \/ ER_PendingReturn("r1")
  \/ \E e \in {"e1", TimeoutError} : ER_PendingFail(e)
  \/ \E k \in EntryStats : BumpStat(k)
  \/ call_get_fallback_result(<<"jsx", "1">>)
  \/ \E loop_running \in BOOLEAN : reset_system_state(loop_running)
  \/ clear_results

SpecStats == InitStats /\ [][NextStats]_vars

\* Reset workload: the breaker, the flag and the counters are driven to any
\* state, and reset_system_state is called at any moment.
InitReset ==
  /\ NewBreaker(2, 1, 1)
  /\ NewQueue(1, 1, [i \in ItemIds |-> 1])
  /\ \E cls \in AgentClasses : NewAgent(cls)
  /\ NewSessionManager

NextReset ==
  \/ Tick
  \/ RecordFailure
  \/ RecordSuccess
  \/ ReadState
  \/ SetSyncMode
  \/ \E k \in StatNames : BumpStat(k)
  \/ \E loop_running \in BOOLEAN : reset_system_state(loop_running)
  \/ clear_results

SpecReset == InitReset /\ [][NextReset]_vars

\* Breaker-invariant workload: a breaker of any configuration is used
\* directly (state reads, recorded failures and successes, the clock) and
\* reset by the agent of either class.
InitInv ==
  /\ \E ft \in 1..MaxThreshold, hoa \in 1..MaxHalfOpen :
        NewBreaker(ft, 1, hoa)
  /\ NewQueue(1, 1, [i \in ItemIds |-> 1])
  /\ \E cls \in AgentClasses : NewAgent(cls)
  /\ NewSessionManager

NextInv ==
  \/ Tick
  \/ ReadState
  \/ RecordFailure
  \/ RecordSuccess
  \/ \E loop_running \in BOOLEAN : reset_system_state(loop_running)
  \/ clear_results

SpecInv == InitInv /\ [][NextInv]_vars

\* ------------------------------------- the agents' entry points
\* One generate_jsx_components_async call (JSXCreatorAgent) or
\* analyze_content_for_jsx call (JSXContentAnalyzer) at a time, followed
\* from suspension to suspension; the execute_with_resilience calls it
\* makes are the executor's above.

EntryFrame ==
  UNCHANGED <<smvars, cbvars, qvars, agent_class, attempt_start,
              fallback_call, er_kind, max_retries, backoff_factor,
              current_retry, current_timeout, last_exception, er_trace,
              er_invocations, op_value, sleeps, er_ret, reset_ret,
              clear_scheduled>>

\* The call in progress, if any, is suspended in an await of its own, of
\* wait_for or of asyncio.sleep: other tasks of the event loop run.
Suspended ==
  \/ entry_call.pc \in {"idle", "done", "sync"}
  \/ entry_call.pc = "batch" /\ er_pc \in {"running", "sleeping"}

\* `crew_result is None`, `not generated_components`
Unusable(v) == v = "None"

\* _generate_jsx_components_sync_mode, which awaits nothing: the components
\* built from the agents' results (ok), or _get_fallback_result.
SyncModeEnd(ok, stats, call) ==
  /\ ok \/ stats.fallback_used < MaxFallbacks
  /\ execution_stats' = IF ok THEN stats ELSE _get_fallback_result(stats)
  /\ entry_call' = [call EXCEPT
                      !.pc = "done",
                      !.ret = IF ok THEN "sync_components" ELSE "fallback"]

\* generate_jsx_components_async, lines 610-620.  deep: _should_use_sync
\* finds the call depth at the limit.
generate_jsx_components_async(deep, ok) ==
  /\ agent_class = "JSXCreatorAgent"
  /\ entry_call.pc \in {"idle", "done"}
  /\ execution_stats.total_attempts < MaxEntries
  /\ LET stats == [execution_stats EXCEPT !.total_attempts = @ + 1]
     IN  /\ fallback_to_sync' = (fallback_to_sync \/ deep)
         /\ IF deep \/ fallback_to_sync
              THEN SyncModeEnd(ok, stats,
                               [NoEntry EXCEPT
                                  !.flag_at_entry = fallback_to_sync,
                                  !.mode = "sync"])
              ELSE /\ execution_stats' = stats
                   /\ entry_call' = [NoEntry EXCEPT !.pc = "batch",
                                                    !.mode = "batch"]
  /\ UNCHANGED er_pc
  /\ EntryFrame

\* Variant of analyze_content_for_jsx whose gate looks at the call depth
\* only.
analyze_content_for_jsx_depth_only(deep) ==
  /\ agent_class = "JSXContentAnalyzer"
  /\ entry_call.pc \in {"idle", "done"}
  /\ fallback_to_sync' = (fallback_to_sync \/ deep)
  /\ entry_call' = [NoEntry EXCEPT
                      !.pc = "sync", !.flag_at_entry = fallback_to_sync,
                      !.mode = IF deep THEN "sync" ELSE "batch"]
  /\ UNCHANGED <<execution_stats, er_pc>>
  /\ EntryFrame

\* analyze_content_for_jsx, lines 619-660 of jsx_content_analyzer.py: with
\* the gate closed _analyze_content_for_jsx_batch_mode calls
\* execute_with_resilience(..., timeout=...), a keyword the method does not
\* have; the TypeError is caught by `except Exception` of the batch mode,
\* which goes on in sync mode.  Either way the call is then suspended in
\* _analyze_content_for_jsx_sync_mode.
analyze_content_for_jsx(deep) ==
  /\ agent_class = "JSXContentAnalyzer"
  /\ entry_call.pc \in {"idle", "done"}
  /\ fallback_to_sync' = (fallback_to_sync \/ deep)
  /\ entry_call' = [NoEntry EXCEPT
                      !.pc = "sync", !.flag_at_entry = fallback_to_sync,
                      !.mode = IF deep \/ fallback_to_sync THEN "sync"
                                                           ELSE "batch"]
  /\ UNCHANGED <<execution_stats, er_pc>>
  /\ EntryFrame

\* _analyze_content_for_jsx_sync_mode returns its analysis (ok) or the
\* fallback result.
sync_mode_return(ok) ==
  /\ entry_call.pc = "sync"
  /\ entry_call' = [entry_call EXCEPT
                      !.pc = "done",
                      !.ret = IF ok THEN "sync_analysis" ELSE "fallback"]
  /\ execution_stats' = IF ok THEN execution_stats
                              ELSE _get_fallback_result(execution_stats)
  /\ UNCHANGED <<fallback_to_sync, er_pc>>
  /\ EntryFrame

\* _generate_jsx_components_batch_mode calls execute_with_resilience (lines
\* 663 and 677) with the default max_retries.
batch_mode_execute ==
  /\ entry_call.pc = "batch"
  /\ execute_with_resilience("callable", DefaultRetries, 1)

\* The caller of execute_with_resilience resumes.  Lines 669-672 and
\* 685-688: an unusable value gives the fallback result; a usable one leads
\* to the second call, or after it to the count of the success (line 691).
\* Lines 624-635: RecursionError and CircuitBreakerOpenError set the flag
\* and run the sync mode, any other exception gives the fallback result.
batch_mode_resume(ok) ==
  /\ entry_call.pc = "batch"
  /\ er_pc = "done"
  /\ er_pc' = "idle"
  /\ IF er_ret.kind = "return" /\ ~Unusable(er_ret.val)
       THEN /\ execution_stats' =
                 IF entry_call.stage = 1
                   THEN [execution_stats EXCEPT
                           !.successful_executions = @ + 1]
                   ELSE execution_stats
            /\ entry_call' =
                 IF entry_call.stage = 0
                   THEN [entry_call EXCEPT !.stage = 1]
                   ELSE [entry_call EXCEPT !.stage = 2, !.pc = "done",
                                           !.ret = "components"]
            /\ UNCHANGED fallback_to_sync
       ELSE IF er_ret.kind = "raise"
               /\ er_ret.val \in {RecursionError, CircuitBreakerOpenError}
         THEN /\ fallback_to_sync' = TRUE
              /\ SyncModeEnd(ok, execution_stats, entry_call)
         ELSE /\ SyncModeEnd(FALSE, execution_stats, entry_call)
              /\ UNCHANGED fallback_to_sync
  /\ EntryFrame

\* reset_system_state is called by another task of the running loop while
\* the call is suspended, or with no loop running when no call is in
\* progress.
EntryReset(loop_running) ==
  /\ IF loop_running THEN Suspended
                     ELSE entry_call.pc \in {"idle", "done"}
  /\ reset_system_state(loop_running)

\* Entry-point workload: an agent of either class makes one call after
\* another; the operations return, raise and time out, the call depth may
\* be at the limit, and the agent is reset between and during the calls.
InitEntry ==
  /\ NewBreaker(1, 1, 1)
  /\ NewQueue(1, 1, [i \in ItemIds |-> 1])
  /\ \E cls \in AgentClasses : NewAgent(cls)
  /\ NewSessionManager

NextEntry ==
  \/ \E deep \in BOOLEAN, ok \in BOOLEAN :
       generate_jsx_components_async(deep, ok)
  \/ \E deep \in BOOLEAN : analyze_content_for_jsx(deep)
  \/ \E ok \in BOOLEAN : sync_mode_return(ok)
  \/ batch_mode_execute
  \/ \E deep \in BOOLEAN : ER_Attempt(deep)
  \/ \E r \in {"r1", "None"} : ER_OpReturn(r)
  \/ ER_OpRaise("e1")
  \/ ER_OpRecursion
  \/ ER_OpTimeout
  \/ ER_Wake
  \/ \E ok \in BOOLEAN : batch_mode_resume(ok)
  \/ \E loop_running \in BOOLEAN : EntryReset(loop_running)
  \/ clear_results

SpecEntry == InitEntry /\ [][NextEntry]_vars

\* ====================================================== SessionManager
\* src/utils/session_isolation.py.  The manager is a process-wide singleton
\* used from several OS threads: a thread may be preempted between any two
\* accesses to the manager's dicts, so every method is a sequence of steps,
\* one per access.

\* d[k] = v on a dict d, and del d[k].
DictSet(d, k, v) == [x \in DOMAIN d \cup {k} |-> IF x = k THEN v ELSE d[x]]
DictDel(d, k)    == [x \in DOMAIN d \ {k} |-> d[x]]

\* The ids create_session has generated so far: the uuid part makes every
\* id new.  lock_owner[s] is -1 until the Lock of session s is made.
Creating(s) ==
  \E t \in Threads : /\ threads[t].op = "create_session"
                     /\ threads[t].pc # "done"
                     /\ threads[t].sid = s

Generated == {s \in SessionIds : lock_owner[s] # -1 \/ Creating(s)}

\* The ids a caller can pass: those a create_session call has returned.
Returned(s) == lock_owner[s] # -1 /\ ~Creating(s)

Ready(t) == threads[t].pc \in {"idle", "done"}

SMFrame == UNCHANGED <<cbvars, qvars, ervars>>

\* time.time() advances by 3600 s.
SMTick ==
  /\ time_time < MaxHours
  /\ time_time' = time_time + 1
  /\ UNCHANGED <<sessions, session_data, session_locks, lock_owner, _lock,
                 threads>>
  /\ SMFrame

\* ---- create_session(isolation_level)
\* line 49: the new id; then `with self._lock` is entered.
create_session(t, lvl) ==
  /\ Ready(t)
  /\ \E s \in SessionIds :
       /\ s \notin Generated
       /\ \A s2 \in SessionIds : s2 < s => s2 \in Generated
       /\ threads' = [threads EXCEPT ![t] =
                        [NoThread EXCEPT !.op = "create_session",
                                         !.pc = "c_lock", !.sid = s,
                                         !.level = lvl,
                                         !.stores = threads[t].stores]]
  /\ UNCHANGED <<sessions, session_data, session_locks, lock_owner, _lock,
                 time_time>>
  /\ SMFrame

Goto(t, pc2) == threads' = [threads EXCEPT ![t].pc = pc2]
Finish(t, r) == threads' = [threads EXCEPT ![t].pc = "done", ![t].ret = r]

\* line 59: with self._lock
create_lock(t) ==
  /\ threads[t].pc = "c_lock"
  /\ _lock = 0
  /\ _lock' = t
  /\ Goto(t, "c_sessions")
  /\ UNCHANGED <<sessions, session_data, session_locks, lock_owner,
                 time_time>>
  /\ SMFrame

\* line 60: self.sessions[session_id] = config
create_sessions(t) ==
  /\ threads[t].pc = "c_sessions"
  /\ sessions' = DictSet(sessions, threads[t].sid,
                         [isolation_level |-> threads[t].level,
                          enable_cross_session_learning |-> FALSE])
  /\ Goto(t, "c_data")
  /\ UNCHANGED <<session_data, session_locks, lock_owner, _lock, time_time>>
  /\ SMFrame

\* lines 61-67: self.session_data[session_id] = {...}; of its keys,
\* created_at, vector_data and shared_state are read by none of the
\* methods modelled here and are left out.
create_data(t) ==
  /\ threads[t].pc = "c_data"
  /\ session_data' = DictSet(session_data, threads[t].sid,
                             [agent_results |-> <<>>,
                              contamination_log |-> <<>>])
  /\ Goto(t, "c_locks")
  /\ UNCHANGED <<sessions, session_locks, lock_owner, _lock, time_time>>
  /\ SMFrame

\* line 68: self.session_locks[session_id] = threading.Lock(), and the end
\* of the with block.
create_locks(t) ==
  /\ threads[t].pc = "c_locks"
  /\ session_locks' = session_locks \cup {threads[t].sid}
  /\ lock_owner' = [lock_owner EXCEPT ![threads[t].sid] = 0]
  /\ _lock' = 0
  /\ Goto(t, "c_dir")
  /\ UNCHANGED <<sessions, session_data, time_time>>
  /\ SMFrame

\* lines 71-74: _create_session_directory reads
\* self.sessions[session_id].isolation_level (line 183); the id is returned.
create_return(t) ==
  /\ threads[t].pc = "c_dir"
  /\ IF threads[t].sid \in DOMAIN sessions
       THEN Finish(t, "id")
       ELSE Finish(t, "KeyError")
  /\ UNCHANGED <<sessions, session_data, session_locks, lock_owner, _lock,
                 time_time>>
  /\ SMFrame

\* ---- _cleanup_session(session_id), which cleanup_expired_sessions calls
\* for every session older than its data_retention_hours
_cleanup_session(t, s) ==
  /\ Ready(t)
  /\ Returned(s)
  /\ threads' = [threads EXCEPT ![t] =
                   [NoThread EXCEPT !.op = "_cleanup_session",
                                    !.pc = "d_lock", !.sid = s,
                                    !.stores = threads[t].stores]]
  /\ UNCHANGED <<sessions, session_data, session_locks, lock_owner, _lock,
                 time_time>>
  /\ SMFrame

\* line 199: with self._lock
cleanup_lock(t) ==
  /\ threads[t].pc = "d_lock"
  /\ _lock = 0
  /\ _lock' = t
  /\ Goto(t, "d_sessions")
  /\ UNCHANGED <<sessions, session_data, session_locks, lock_owner,
                 time_time>>
  /\ SMFrame

\* lines 200-201
cleanup_sessions(t) ==
  /\ threads[t].pc = "d_sessions"
  /\ sessions' = DictDel(sessions, threads[t].sid)
  /\ Goto(t, "d_data")
  /\ UNCHANGED <<session_data, session_locks, lock_owner, _lock, time_time>>
  /\ SMFrame

\* lines 202-203
cleanup_data(t) ==
  /\ threads[t].pc = "d_data"
  /\ session_data' = DictDel(session_data, threads[t].sid)
  /\ Goto(t, "d_locks")
  /\ UNCHANGED <<sessions, session_locks, lock_owner, _lock, time_time>>
  /\ SMFrame

\* lines 204-211: the lock is dropped from the dict, the with block ends
\* and the directory is removed.
cleanup_locks(t) ==
  /\ threads[t].pc = "d_locks"
  /\ session_locks' = session_locks \ {threads[t].sid}
  /\ _lock' = 0
  /\ Finish(t, "None")
  /\ UNCHANGED <<sessions, session_data, lock_owner, time_time>>
  /\ SMFrame

\* ---- store_agent_result(session_id, agent_name, result)
\* The result is tagged with the session id and the agent name it is stored
\* with and with the call that stores it; `contaminated` is the verdict that
\* isolation_manager.is_contaminated gives for it.
is_contaminated(result) == result.contaminated

\* lines 86-87
store_agent_result(t, s, a, c) ==
  /\ Ready(t)
  /\ Returned(s)
  /\ threads[t].stores < MaxStores
  /\ LET k == threads[t].stores + 1
         call == [NoThread EXCEPT
                    !.op = "store_agent_result", !.sid = s, !.agent = a,
                    !.result = [sid |-> s, agent |-> a, by |-> t, k |-> k,
                                contaminated |-> c],
                    !.stores = k]
     IN  threads' = [threads EXCEPT ![t] =
                       IF s \notin DOMAIN sessions
                         THEN [call EXCEPT !.pc = "done",
                                           !.ret = "ValueError"]
                         ELSE [call EXCEPT !.pc = "s_lookup"]]
  /\ UNCHANGED <<sessions, session_data, session_locks, lock_owner, _lock,
                 time_time>>
  /\ SMFrame

\* line 89: self.session_locks[session_id] is looked up
LockLookup(t, here, next) ==
  /\ threads[t].pc = here
  /\ IF threads[t].sid \in session_locks
       THEN Goto(t, next)
       ELSE Finish(t, "KeyError")
  /\ UNCHANGED <<sessions, session_data, session_locks, lock_owner, _lock,
                 time_time>>
  /\ SMFrame

\* line 89: the with block acquires the Lock that was looked up
LockAcquire(t, here, next) ==
  /\ threads[t].pc = here
  /\ lock_owner[threads[t].sid] = 0
  /\ lock_owner' = [lock_owner EXCEPT ![threads[t].sid] = t]
  /\ Goto(t, next)
  /\ UNCHANGED <<sessions, session_data, session_locks, _lock, time_time>>
  /\ SMFrame

\* a return or an exception inside the with block releases the Lock
Leave(t, r) ==
  /\ lock_owner' = [lock_owner EXCEPT ![threads[t].sid] = 0]
  /\ Finish(t, r)

store_lookup(t) ==
  /\ threads[t].op = "store_agent_result"
  /\ LockLookup(t, "s_lookup", "s_acquire")

store_acquire(t) ==
  /\ threads[t].op = "store_agent_result"
  /\ LockAcquire(t, "s_acquire", "s_check")

\* lines 91-98: the contamination check; a contaminated result is logged
\* and False is returned
store_check(t) ==
  LET s == threads[t].sid
  IN  /\ threads[t].pc = "s_check"
      /\ IF ~is_contaminated(threads[t].result)
           THEN /\ Goto(t, "s_init")
                /\ UNCHANGED <<session_data, lock_owner>>
           ELSE IF s \notin DOMAIN session_data
             THEN /\ Leave(t, "KeyError")
                  /\ UNCHANGED session_data
             ELSE /\ session_data' =
                       [session_data EXCEPT ![s].contamination_log =
                          Append(@, [agent |-> threads[t].agent,
                                     contamination_type |->
                                       "agent_result"])]
                  /\ Leave(t, "False")
      /\ UNCHANGED <<sessions, session_locks, _lock, time_time>>
      /\ SMFrame

\* lines 100-101: the agent's list is created if it is missing
store_init(t) ==
  LET s == threads[t].sid
      a == threads[t].agent
  IN  /\ threads[t].pc = "s_init"
      /\ IF s \notin DOMAIN session_data
           THEN /\ Leave(t, "KeyError")
                /\ UNCHANGED session_data
           ELSE /\ session_data' =
                     IF a \in DOMAIN session_data[s].agent_results
                       THEN session_data
                       ELSE [session_data EXCEPT ![s].agent_results =
                               DictSet(@, a, <<>>)]
                /\ Goto(t, "s_append")
                /\ UNCHANGED lock_owner
      /\ UNCHANGED <<sessions, session_locks, _lock, time_time>>
      /\ SMFrame

Entry(t) == [timestamp |-> time_time, result |-> threads[t].result]

\* Variant of store_append in which the sessions share one agent_results
\* dict: the entry shows in every session.
store_append_shared(t) ==
  LET s == threads[t].sid
      a == threads[t].agent
  IN  /\ threads[t].pc = "s_append"
      /\ IF s \in DOMAIN session_data
           THEN /\ session_data' =
                     [x \in DOMAIN session_data |->
                        [session_data[x] EXCEPT !.agent_results =
                           DictSet(@, a,
                                   Append(IF a \in DOMAIN @ THEN @[a]
                                                             ELSE <<>>,
                                          Entry(t)))]]
                /\ Goto(t, "s_save")
                /\ UNCHANGED lock_owner
           ELSE /\ Leave(t, "KeyError")
                /\ UNCHANGED session_data
      /\ UNCHANGED <<sessions, session_locks, _lock, time_time>>
      /\ SMFrame

\* lines 103-107: the append
store_append(t) ==
  LET s == threads[t].sid
      a == threads[t].agent
  IN  /\ threads[t].pc = "s_append"
      /\ IF s \in DOMAIN session_data
           THEN /\ session_data' =
                     [session_data EXCEPT ![s].agent_results[a] =
                        Append(@, Entry(t))]
                /\ Goto(t, "s_save")
                /\ UNCHANGED lock_owner
           ELSE /\ Leave(t, "KeyError")
                /\ UNCHANGED session_data
      /\ UNCHANGED <<sessions, session_locks, _lock, time_time>>
      /\ SMFrame

\* lines 110-111: _save_session_data (lines 186-195) writes the session's
\* file and swallows every exception it meets, a missing session included;
\* True is returned.
store_save(t) ==
  /\ threads[t].pc = "s_save"
  /\ Leave(t, "True")
  /\ UNCHANGED <<sessions, session_data, session_locks, _lock, time_time>>
  /\ SMFrame

\* ---- get_agent_results(session_id, agent_name)
RECURSIVE SelectSeq2(_, _)
\* [r for r in results if time.time() - r["timestamp"] < 3600]
SelectSeq2(results, t) ==
  IF results = <<>> THEN <<>>
  ELSE LET rest == SelectSeq2(Tail(results), t)
       IN  IF t - Head(results).timestamp < RecentWindow
             THEN <<Head(results)>> \o rest
             ELSE rest

ResultsOf(entries) == [j \in 1..Len(entries) |-> entries[j].result]

\* lines 119-132, for a session that is in both dicts
AgentResults(s, a) ==
  LET results == IF a \in DOMAIN session_data[s].agent_results
                   THEN session_data[s].agent_results[a]
                   ELSE <<>>
  IN  IF sessions[s].isolation_level = "strict" THEN ResultsOf(results)
      ELSE IF sessions[s].isolation_level = "moderate"
        THEN ResultsOf(SelectSeq2(results, time_time))
        ELSE ResultsOf(results)

\* lines 115-116
get_agent_results(t, s, a) ==
  /\ Ready(t)
  /\ Returned(s)
  /\ LET call == [NoThread EXCEPT !.op = "get_agent_results", !.sid = s,
                                  !.agent = a,
                                  !.stores = threads[t].stores]
     IN  threads' = [threads EXCEPT ![t] =
                       IF s \notin DOMAIN sessions
                         THEN [call EXCEPT !.pc = "done", !.ret = "list"]
                         ELSE [call EXCEPT !.pc = "g_lookup"]]
  /\ UNCHANGED <<sessions, session_data, session_locks, lock_owner, _lock,
                 time_time>>
  /\ SMFrame

\* line 118
get_lookup(t) ==
  /\ threads[t].op = "get_agent_results"
  /\ LockLookup(t, "g_lookup", "g_acquire")

get_acquire(t) ==
  /\ threads[t].op = "get_agent_results"
  /\ LockAcquire(t, "g_acquire", "g_read")

\* lines 119-132: session_data[session_id] and sessions[session_id] are
\* read (_cleanup_session removes the session from sessions first, so a
\* session missing from session_data is missing from sessions at line 122
\* too).
get_read(t) ==
  LET s == threads[t].sid
  IN  /\ threads[t].pc = "g_read"
      /\ lock_owner' = [lock_owner EXCEPT ![s] = 0]
      /\ IF s \in DOMAIN session_data /\ s \in DOMAIN sessions
           THEN threads' = [threads EXCEPT
                              ![t].pc = "done", ![t].ret = "list",
                              ![t].got = AgentResults(s, threads[t].agent)]
           ELSE Finish(t, "KeyError")
      /\ UNCHANGED <<sessions, session_data, session_locks, _lock,
                     time_time>>
      /\ SMFrame

\* ---- get_cross_session_data(current_session_id, agent_name, max_sessions)
\* lines 137-139 return [] for a missing session and for one whose
\* enable_cross_session_learning is off; lines 141-156 collect the
\* uncontaminated results that get_agent_results gives for other sessions.
RECURSIVE CrossResults(_, _, _)
CrossResults(others, a, max_sessions) ==
  IF others = {} \/ max_sessions = 0 THEN <<>>
  ELSE LET s2 == CHOOSE x \in others : \A y \in others : x <= y
           mine == IF s2 \in DOMAIN session_data
                     THEN SelectSeq(AgentResults(s2, a),
                                    LAMBDA r : ~is_contaminated(r))
                     ELSE <<>>
       IN  mine \o CrossResults(others \ {s2}, a, max_sessions - 1)

get_cross_session_data(t, s, a) ==
  /\ Ready(t)
  /\ Returned(s)
  /\ LET call == [NoThread EXCEPT !.op = "get_cross_session_data",
                                  !.sid = s, !.agent = a, !.pc = "done",
                                  !.ret = "list",
                                  !.stores = threads[t].stores]
     IN  threads' = [threads EXCEPT ![t] =
           IF s \notin DOMAIN sessions
              \/ ~sessions[s].enable_cross_session_learning
             THEN call
             ELSE [call EXCEPT !.got =
                     CrossResults(DOMAIN sessions \ {s}, a, 3)]]
  /\ UNCHANGED <<sessions, session_data, session_locks, lock_owner, _lock,
                 time_time>>
  /\ SMFrame

\* Session workload: threads create sessions, store and read results and
\* clean sessions up, preempted anywhere.
InitSession ==
  /\ NewBreaker(1, 1, 1)
  /\ NewQueue(1, 1, [i \in ItemIds |-> 1])
  /\ NewAgent("JSXCreatorAgent")
  /\ NewSessionManager

NextSession ==
  \E t \in Threads :
    \/ create_session(t, "strict")
    \/ create_lock(t)
    \/ create_sessions(t)
    \/ create_data(t)
    \/ create_locks(t)
    \/ create_return(t)
    \/ \E s \in SessionIds : _cleanup_session(t, s)
    \/ cleanup_lock(t)
    \/ cleanup_sessions(t)
    \/ cleanup_data(t)
    \/ cleanup_locks(t)
    \/ \E s \in SessionIds, c \in BOOLEAN :
         store_agent_result(t, s, "JSXCreatorAgent", c)
    \/ store_lookup(t)
    \/ store_acquire(t)
    \/ store_check(t)
    \/ store_init(t)
    \/ store_append(t)
    \/ store_save(t)

SpecSession == InitSession /\ [][NextSession]_vars

\* Isolation workload: one thread creates sessions, strict (the default)
\* and moderate ("minimal" returns what "strict" does), stores results of
\* both agents in them and reads them back, time passing.
InitIsolation == InitSession

NextIsolation ==
  \/ SMTick
  \/ \E t \in {1} :
       \/ \E lvl \in {"strict", "moderate"} : create_session(t, lvl)
       \/ create_lock(t)
       \/ create_sessions(t)
       \/ create_data(t)
       \/ create_locks(t)
       \/ create_return(t)
       \/ \E s \in SessionIds, c \in BOOLEAN :
            store_agent_result(t, s, "JSXCreatorAgent", c)
       \/ store_lookup(t)
       \/ store_acquire(t)
       \/ store_check(t)
       \/ store_init(t)
       \/ store_append(t)
       \/ store_save(t)
       \/ \E s \in SessionIds, a \in AgentNames : get_agent_results(t, s, a)
       \/ get_lookup(t)
       \/ get_acquire(t)
       \/ get_read(t)
       \/ \E s \in SessionIds, a \in AgentNames :
            get_cross_session_data(t, s, a)

SpecIsolation == InitIsolation /\ [][NextIsolation]_vars

\* ================================================================ claims
\* --------------------------------------------------------- CircuitBreaker

Elapsed(b, t) == b.last_failure_time # NoneTime
                 /\ (t - b.last_failure_time) > recovery_timeout

\* C1: starting from CLOSED with _failure_count 0, while fewer than
\* failure_threshold consecutive record_failure calls have been made the
\* breaker is (and reads) CLOSED, and right after the failure_threshold-th
\* such call a read of state gives OPEN.
C1_ThresholdOpens ==
  /\ (streakF >= 0 /\ streakF < failure_threshold)
       => /\ circuit_breaker.state = CLOSED
          /\ state(circuit_breaker, now).state = CLOSED
  /\ (streakF = failure_threshold /\ lastOp \in FailureOps)
       => state(circuit_breaker, now).state = OPEN

C1_Witness ==
  /\ failure_threshold >= 2
  /\ streakF = failure_threshold
  /\ lastOp = "record_failure"
  /\ pre.state = CLOSED
  /\ circuit_breaker.state = OPEN

\* C2: a read of state on an OPEN breaker whose _last_failure_time is more
\* than recovery_timeout in the past returns HALF_OPEN, stores HALF_OPEN and
\* resets _success_count to 0; the read alone does it.
C2_LazyHalfOpen ==
  (lastOp = "state" /\ pre.state = OPEN /\ Elapsed(pre, now))
    => /\ ret = [kind |-> "return", val |-> HALF_OPEN]
       /\ circuit_breaker.state = HALF_OPEN
       /\ circuit_breaker.success_count = 0

C2_Witness ==
  /\ lastOp = "state"
  /\ pre.state = OPEN
  /\ pre.success_count > 0
  /\ Elapsed(pre, now)
  /\ circuit_breaker.state = HALF_OPEN

\* C3: a record_failure call on a HALF_OPEN breaker leaves it OPEN (stored
\* and as read) with _failure_count = failure_threshold, whatever
\* _success_count was.
C3_HalfOpenFragile ==
  (lastOp \in FailureOps /\ pre.state = HALF_OPEN)
    => /\ circuit_breaker.state = OPEN
       /\ state(circuit_breaker, now).state = OPEN
       /\ circuit_breaker.failure_count = failure_threshold

C3_Witness ==
  /\ lastOp = "record_failure"
  /\ pre.state = HALF_OPEN
  /\ pre.success_count >= 1
  /\ pre.failure_count + 1 # failure_threshold
  /\ circuit_breaker.state = OPEN

\* C4: counted from the entry into HALF_OPEN, the breaker stays HALF_OPEN
\* while fewer than half_open_attempts consecutive record_success calls were
\* made, and the half_open_attempts-th one leaves it CLOSED with
\* _failure_count = _success_count = 0.
C4_HalfOpenCloses ==
  /\ (streakS >= 0 /\ streakS < half_open_attempts)
       => circuit_breaker.state = HALF_OPEN
  /\ streakS = half_open_attempts
       => /\ circuit_breaker.state = CLOSED
          /\ circuit_breaker.failure_count = 0
          /\ circuit_breaker.success_count = 0

C4_Witness ==
  /\ half_open_attempts >= 2
  /\ streakS = half_open_attempts
  /\ lastOp = "record_success"
  /\ pre.state = HALF_OPEN
  /\ pre.failure_count > 0
  /\ circuit_breaker.state = CLOSED

\* C5: execute called on an OPEN breaker whose recovery timeout has not
\* elapsed raises CircuitBreakerOpenError, does not invoke the operation and
\* leaves _failure_count, _success_count and _last_failure_time unchanged.
C5_OpenRejects ==
  (lastOp \in {"execute_reject", "execute_admit"}
   /\ pre.state = OPEN /\ ~Elapsed(pre, now))
    => /\ lastOp = "execute_reject"
       /\ ret = [kind |-> "raise", val |-> CircuitBreakerOpenError]
       /\ ~invoked
       /\ circuit_breaker.failure_count = pre.failure_count
       /\ circuit_breaker.success_count = pre.success_count
       /\ circuit_breaker.last_failure_time = pre.last_failure_time
       /\ circuit_breaker.state = OPEN

C5_Witness ==
  /\ lastOp = "execute_reject"
  /\ pre.state = OPEN
  /\ ~Elapsed(pre, now)
  /\ \E c \in CallIds : calls[c] = "running"

\* C6: when the operation of an admitted execute call completes, execute
\* calls record_success once (and record_failure not at all) and returns the
\* operation's result; when it raises, execute calls record_failure once
\* (and record_success not at all) and raises that same exception.
C6_ExecuteRecordsOnce ==
  /\ lastOp = "execute_return"
       => /\ circuit_breaker.n_success = 1
          /\ circuit_breaker.n_failure = 0
          /\ opOutcome.kind = "return"
          /\ ret = opOutcome
  /\ lastOp = "execute_raise"
       => /\ circuit_breaker.n_failure = 1
          /\ circuit_breaker.n_success = 0
          /\ opOutcome.kind = "raise"
          /\ ret = opOutcome

C6_Witness ==
  /\ lastOp = "execute_raise"
  /\ ret = [kind |-> "raise", val |-> "e2"]
  /\ pre.state = CLOSED
  /\ circuit_breaker.state = OPEN

\* --------------------------------------------------------- AsyncWorkQueue

InFlight(i) == flight[i].pc \in {"run", "nested"}

\* C7: an enqueue_work call made while the queue holds max_queue_size items
\* returns False and the item is never put in the queue (nor executed).
C7_FullReturnsFalse ==
  \A i \in ItemIds :
    (full_at_call[i] /\ enq[i] \notin {"new", "blocked"})
      => /\ enq[i] = "false"
         /\ i \notin _queue
         /\ executed[i] = 0

\* C8: enqueue_work never suspends: no call is ever left waiting for room in
\* the queue.
C8_EnqueueNeverBlocks ==
  \A i \in ItemIds : enq[i] # "blocked"

\* C9: an item whose enqueue_work returned True is never lost and never run
\* twice: it is still queued, or being executed by a worker, or has a result
\* entry with status success, timeout or error; and its task_func was
\* started at most once.
C9_NoItemLost ==
  \A i \in ItemIds :
    enq[i] = "true"
      => /\ executed[i] <= 1
         /\ \/ i \in _queue
            \/ InFlight(i)
            \/ _results[i] \in Statuses

\* C10 as stated: with one worker, results are written in ascending priority
\* order whatever the order of the enqueue_work calls.
C10_AlwaysAscending == ~out_of_order

\* C10 as amended: with one worker, items that were all put before the
\* worker took its first item have their results written in ascending
\* priority order.
C10_BurstAscending == ~late_enqueue => ~out_of_order

C10_Witness ==
  /\ priority[1] = 5 /\ priority[2] = 1 /\ priority[3] = 3
  /\ ~late_enqueue
  /\ \A i \in 1..3 : _results[i] \in Statuses
  /\ last_completed = 5

\* C11: when a stop() call returns, every worker task has ended and
\* self._workers is empty; and when the call was stop(graceful=True), every
\* item that was queued or in flight when it was made has a result entry.
C11_StopCompletes ==
  stop_returned.returned
    => /\ ~stop_returned.alive
       /\ ~stop_returned.listed
       /\ stop_returned.graceful => ~stop_returned.unprocessed

\* C12: a get_results call returns with no item queued or in flight, and its
\* value holds, when called with None, every stored entry, and when called
\* with a list (the empty list included) exactly the entries of the listed
\* ids that have one.
C12_GetResultsSelects ==
  get_returned.returned
    => /\ get_returned.drained
       /\ \A i \in ItemIds :
            get_returned.value[i] =
              IF ~get_returned.arg.given \/ i \in get_returned.arg.ids
              THEN get_returned.stored[i]
              ELSE "none"

\* C13: once the execution of an item has ended, the item has an entry whose
\* status says how it ended (success when the callable completed, timeout
\* when it exceeded item.timeout, error when it raised), the enqueue_work
\* call that accepted it returned True, and the worker is still running.
C13_FailureContained ==
  \A i \in ItemIds :
    behaviour[i] # "none"
      => /\ _results[i] = behaviour[i]
         /\ enq[i] = "true"
         /\ Alive(_workers) = _max_workers

\* ------------------------------------------------- execute_with_resilience

Retried     == {"rejected", "raise", "timeout"}
Invoking    == {"return", "raise", "timeout", "recursion"}
CountIn(seq, S) == Cardinality({k \in 1..Len(seq) : seq[k] \in S})
LastOf(seq) == seq[Len(seq)]
Finished == er_pc = "done" /\ er_kind = "callable"

\* C14: the k-th backoff sleep of a call lasts backoff_factor^(k-1); one
\* sleep separates two consecutive attempts and none follows the last one;
\* and a call with max_retries = 2 whose operation fails twice and then
\* succeeds returns the operation's value after 3 invocations and the two
\* sleeps backoff_factor^0, backoff_factor^1.
C14_RetryBackoff ==
  /\ \A k \in 1..Len(sleeps) : sleeps[k] = Pow(backoff_factor, k - 1)
  /\ er_pc \in {"attempt", "running", "sleeping"}
       => Len(sleeps) = Len(er_trace)
  /\ (Finished /\ er_trace # <<>>) => Len(sleeps) = Len(er_trace) - 1
  /\ (Finished /\ max_retries = 2 /\ Len(er_trace) = 3
      /\ er_trace[1] \in {"raise", "timeout"}
      /\ er_trace[2] \in {"raise", "timeout"}
      /\ er_trace[3] = "return")
       => /\ er_ret = [kind |-> "return", val |-> op_value]
          /\ op_value \in Results
          /\ er_invocations = 3
          /\ current_retry = 2
          /\ sleeps = <<Pow(backoff_factor, 0), Pow(backoff_factor, 1)>>

C14_Witness ==
  /\ Finished
  /\ max_retries = 2
  /\ backoff_factor = 2
  /\ er_trace = <<"raise", "timeout", "return">>
  /\ sleeps = <<1, 2>>
  /\ er_ret = [kind |-> "return", val |-> "r2"]

\* The exception of the attempt that ended last, as the breaker and
\* wait_for delivered it (read in the state that the attempt's end leaves,
\* before the clock moves on).
LastObserved ==
  IF LastOf(er_trace) = "timeout" THEN TimeoutError ELSE ret.val

\* C15: a call whose attempts all end with a retryable failure goes on until
\* max_retries + 1 attempts have been made, and then raises the exception of
\* the last attempt; a call that made no attempt at all raises the generic
\* exhaustion error.
C15_ExhaustionRaisesLast ==
  /\ (Finished /\ er_trace # <<>> /\ LastOf(er_trace) \in Retried)
       => /\ Len(er_trace) = max_retries + 1
          /\ \A k \in 1..Len(er_trace) : er_trace[k] \in Retried
          /\ lastOp # "tick" => er_ret = [kind |-> "raise", val |-> LastObserved]
          /\ er_ret.kind = "raise"
  /\ (er_kind = "callable" /\ er_pc # "idle" /\ Len(er_trace) <= max_retries
      /\ \A k \in 1..Len(er_trace) : er_trace[k] \in Retried)
       => er_pc # "done"
  /\ (Finished /\ er_trace = <<>>)
       => /\ max_retries < 0
          /\ er_ret = [kind |-> "raise", val |-> ExhaustedError]

C15_Witness ==
  /\ Finished
  /\ max_retries = 2
  /\ er_trace = <<"raise", "timeout", "raise">>
  /\ er_invocations = 3
  /\ er_ret = [kind |-> "raise", val |-> "e2"]
  /\ lastOp = "execute_raise"

\* C16: an attempt stopped by the depth check ("deep") or whose operation
\* raised RecursionError is the last one: the call has ended raising
\* RecursionError with the sync-mode flag set, no sleep follows the attempt,
\* and the depth check stops the attempt before the operation is invoked.
C16_RecursionStopsAtOnce ==
  /\ \A k \in 1..Len(er_trace) :
       er_trace[k] \in {"deep", "recursion"}
         => /\ k = Len(er_trace)
            /\ er_pc = "done"
            /\ er_ret = [kind |-> "raise", val |-> RecursionError]
            /\ fallback_to_sync
            /\ Len(sleeps) = k - 1
  /\ (er_kind = "callable" /\ er_pc \in {"done", "sleeping", "attempt"})
       => er_invocations = CountIn(er_trace, Invoking)

C16_Witness ==
  /\ er_pc = "done"
  /\ max_retries = 2
  /\ er_trace = <<"deep">>
  /\ er_invocations = 0
  /\ fallback_to_sync

\* C17: every attempt rejected by the OPEN breaker is counted once in
\* circuit_breaker_triggered and does not invoke the operation; it is
\* followed by the backoff sleep and the next attempt, or, when it was
\* attempt max_retries + 1, by the raise of CircuitBreakerOpenError; a call
\* all of whose attempts were rejected never invoked the operation.
C17_RejectedAttemptRetries ==
  /\ execution_stats.circuit_breaker_triggered
       = CountIn(er_trace, {"rejected"})
  /\ (er_kind = "callable" /\ er_pc \in {"done", "sleeping", "attempt"})
       => er_invocations = CountIn(er_trace, Invoking)
  /\ (er_trace # <<>> /\ LastOf(er_trace) = "rejected")
       => IF Len(er_trace) <= max_retries
          THEN /\ er_pc \in {"sleeping", "attempt", "running"}
               /\ Len(sleeps) = Len(er_trace)
               /\ LastOf(sleeps) = Pow(backoff_factor, Len(er_trace) - 1)
          ELSE /\ er_pc = "done"
               /\ er_ret = [kind |-> "raise",
                            val |-> CircuitBreakerOpenError]

C17_Witness ==
  /\ er_pc = "done"
  /\ max_retries = 2
  /\ er_trace = <<"rejected", "rejected", "rejected">>
  /\ er_invocations = 0
  /\ execution_stats.circuit_breaker_triggered = 3
  /\ er_ret = [kind |-> "raise", val |-> CircuitBreakerOpenError]

\* C18: a call given a coroutine or a future awaits it once, under
\* initial_timeout, and returns: the computation's value when it completed,
\* the fallback value when it raised or timed out; it never raises, sleeps
\* or retries, and it leaves the breaker untouched.
C18_PendingAwaitedOnce ==
  er_kind # "callable"
    => /\ sleeps = <<>>
       /\ current_retry = 0
       /\ current_timeout = InitialTimeout
       /\ er_invocations = 0
       /\ circuit_breaker = pre
       /\ lastOp \in {"init", "tick"}
       /\ er_pc = "done"
            => /\ Len(er_trace) = 1
               /\ er_ret.kind = "return"
               /\ er_ret.val = IF er_trace[1] = "return" THEN op_value
                               ELSE FALLBACK_RESULT

C18_Witness ==
  /\ er_kind = "future"
  /\ er_pc = "done"
  /\ er_trace = <<"timeout">>
  /\ er_ret = [kind |-> "return", val |-> FALLBACK_RESULT]

\* C19 as stated: execute_with_resilience never returns the fallback value
\* itself; a call that failed has raised.
C19_NeverFallback ==
  er_pc = "done"
    => /\ er_ret.val # FALLBACK_RESULT
       /\ (er_trace = <<>> \/ LastOf(er_trace) # "return")
            => er_ret.kind = "raise"

\* C19 as amended: a call given a callable never returns the fallback value
\* and never counts a fallback use: it returns the operation's value or
\* raises; only a call given a coroutine or a future returns the fallback
\* value itself, when that computation failed.
C19_CallableNeverFallback ==
  /\ Finished
       => /\ er_ret.val # FALLBACK_RESULT
          /\ execution_stats.fallback_used = 0
          /\ IF er_trace # <<>> /\ LastOf(er_trace) = "return"
             THEN er_ret = [kind |-> "return", val |-> op_value]
             ELSE er_ret.kind = "raise"
  /\ (er_pc = "done" /\ er_ret.val = FALLBACK_RESULT)
       => /\ er_kind # "callable"
          /\ LastOf(er_trace) # "return"

C19_Witness ==
  /\ Finished
  /\ max_retries = 1
  /\ er_trace = <<"timeout", "raise">>
  /\ er_ret = [kind |-> "raise", val |-> "e1"]
  /\ execution_stats.fallback_used = 0

\* C20: in either agent class and from any state, reset_system_state
\* returns, leaving the breaker CLOSED (stored and as read) with both counts
\* 0, the sync-mode flag false and the five counters 0; a second call made
\* in that state changes none of these.
C20_ResetIdempotent ==
  lastOp = "reset_system_state"
    => /\ reset_ret.kind = "return"
       /\ circuit_breaker.state = CLOSED
       /\ state(circuit_breaker, now).state = CLOSED
       /\ circuit_breaker.failure_count = 0
       /\ circuit_breaker.success_count = 0
       /\ ~fallback_to_sync
       /\ execution_stats = NoStats
       /\ (pre.state = CLOSED /\ pre.failure_count = 0
           /\ pre.success_count = 0)
            => circuit_breaker = Fresh(pre)

\* C21: an OPEN breaker whose _last_failure_time is not yet more than
\* recovery_timeout in the past is still OPEN after any breaker operation (a
\* read of state, record_success, record_failure, a step of execute), and a
\* read of state returns OPEN.
C21_OpenPersists ==
  (lastOp # "init" /\ pre.state = OPEN /\ ~Elapsed(pre, now))
    => /\ circuit_breaker.state = OPEN
       /\ lastOp = "state" => ret = [kind |-> "return", val |-> OPEN]

C21_Witness ==
  /\ lastOp = "execute_return"
  /\ pre.state = OPEN
  /\ now - pre.last_failure_time = recovery_timeout
  /\ circuit_breaker.state = OPEN

\* C22: a record_success call on a CLOSED breaker leaves it CLOSED with
\* _failure_count 0, and a record_failure call opens a CLOSED breaker only
\* as the failure_threshold-th failure recorded since the count was last 0,
\* with no success recorded in between.
C22_SuccessResetsCount ==
  /\ (lastOp \in SuccessOps /\ pre.state = CLOSED)
       => /\ circuit_breaker.state = CLOSED
          /\ circuit_breaker.failure_count = 0
  /\ (lastOp \in FailureOps /\ pre.state = CLOSED
        /\ circuit_breaker.state = OPEN)
       => /\ streakF = failure_threshold
          /\ pre.failure_count = failure_threshold - 1

C22_Witness ==
  /\ lastOp = "record_success"
  /\ failure_threshold >= 3
  /\ pre.state = CLOSED
  /\ pre.failure_count = failure_threshold - 1
  /\ circuit_breaker.failure_count = 0

\* C23: an item that a worker has dequeued is being executed or has its
\* result entry: a stop() call, graceful or not, never ends the execution of
\* an item without an entry.
C23_StopNeverInterrupts ==
  \A i \in ItemIds :
    executed[i] > 0 => (flight[i].pc # "none" \/ _results[i] \in Statuses)

\* The queue's own state, and the number of worker tasks that have not
\* ended.
QueueState == <<_running, _workers, created, idle, flight, cancel_requested,
                _queue, unfinished_tasks, _results, stop_pc, stop_wait>>
RECURSIVE AliveUpTo(_)
AliveUpTo(g) == IF g = 0 THEN 0 ELSE Alive(g) + AliveUpTo(g - 1)
LiveWorkers == AliveUpTo(MaxStarts)

\* What a step that is a start() or stop() call may do.
C24_Step ==
  /\ (lifecycle' # lifecycle /\ lifecycle'.op = "start"
        /\ lifecycle'.was_running)
       => UNCHANGED QueueState
  /\ (lifecycle' # lifecycle /\ lifecycle'.op = "stop"
        /\ ~lifecycle'.was_running)
       => UNCHANGED QueueState
  /\ (lifecycle' # lifecycle /\ lifecycle'.op = "start"
        /\ ~lifecycle'.was_running /\ LiveWorkers = 0)
       => LiveWorkers' = _max_workers

\* C24: a start() call on a running queue and a stop() call on a stopped
\* queue change nothing of the queue; a start() call on a stopped queue none
\* of whose workers is left creates exactly _max_workers worker tasks.
C24_LifecycleIdempotent == [][C24_Step]_vars

C24_Witness ==
  /\ lifecycle = [op |-> "start", was_running |-> TRUE]
  /\ _max_workers = MaxPool
  /\ _running
  /\ created = 1
  /\ LiveWorkers = _max_workers

\* What a step that takes an item from the queue may take.
C25_Step ==
  \A i \in ItemIds :
    (i \in _queue /\ i \notin _queue')
      => \A j \in _queue : priority[i] <= priority[j]

\* C25: whenever an item leaves the queue, taken by a worker or by the
\* batch collector, no item that was in the queue at that moment has a
\* strictly lower priority number.
C25_DequeueMinimum == [][C25_Step]_vars

C25_Witness ==
  /\ priority[1] = 5 /\ priority[2] = 3 /\ priority[3] = 1
  /\ 1 \in _queue
  /\ flight[2].pc = "run"
  /\ batches[1].items = {3}

\* The batches that hold a permit, and the batch items being executed.
Holding == {b \in Batches : batches[b].pc = "gather"}
Executing == UNION {batches[b].running : b \in Batches}

\* C26 as stated: at no time are more than max_workers batch items being
\* executed.
C26_GateLimitsItems == Cardinality(Executing) <= _max_workers

\* C26 as amended: at no time are more than max_workers batches being
\* processed, each holding one permit of the semaphore, so that at most
\* max_workers * batch_size batch items are being executed.
C26_GateLimitsBatches ==
  /\ Cardinality(Holding) <= _max_workers
  /\ semaphore = _max_workers - Cardinality(Holding)
  /\ Cardinality(Executing) <= _max_workers * batch_size

C26_Witness ==
  /\ Cardinality(Holding) = _max_workers
  /\ \E b \in Batches : batches[b].pc = "acquire"
  /\ Cardinality(Executing) > _max_workers

\* C27: in a batch that is being processed or has been processed, every
\* item that has ended has a result entry whose status is how its own
\* execution ended (success, timeout or error), whatever its siblings did;
\* once the batch has finished, every item of it has ended, after running
\* once.
C27_BatchIsolation ==
  \A b \in Batches :
    /\ batches[b].pc \in {"gather", "done"}
         => \A i \in batches[b].items \ batches[b].running :
              /\ _results[i] \in Statuses
              /\ _results[i] = behaviour[i]
              /\ executed[i] = 1
    /\ batches[b].pc = "done" => batches[b].running = {}

C27_Witness ==
  /\ batches[1].pc = "done"
  /\ \E i, j \in batches[1].items :
       /\ _results[i] = "error"
       /\ _results[j] = "success"

\* C28: in a call given a callable, attempt k (the attempt made after k - 1
\* attempts have ended) runs under the timeout
\* initial_timeout * backoff_factor^(k-1); throughout the call the timeout
\* is initial_timeout * backoff_factor^(number of backoff sleeps completed),
\* which never goes down as backoff_factor >= 1.
C28_TimeoutGrows ==
  er_kind = "callable"
    => /\ er_pc \in {"attempt", "running"}
            => current_timeout
                 = InitialTimeout * Pow(backoff_factor, Len(er_trace))
       /\ current_timeout
            = InitialTimeout
                * Pow(backoff_factor,
                      IF er_pc = "sleeping" THEN Len(sleeps) - 1
                      ELSE Len(sleeps))
       /\ current_timeout >= InitialTimeout

C28_Witness ==
  /\ er_kind = "callable"
  /\ er_pc = "running"
  /\ backoff_factor = 2
  /\ er_trace = <<"timeout", "raise">>
  /\ current_timeout = 4 * InitialTimeout

\* What a step may do to the counters.
C29_Step ==
  LET d == execution_stats'.timeout_occurred
             - execution_stats.timeout_occurred
      timed_out == er_kind = "callable"
                   /\ er_trace' = Append(er_trace, "timeout")
  IN  /\ \A k \in StatNames :
           execution_stats'[k] < execution_stats[k]
             => /\ clear_scheduled' = clear_scheduled + 1
                /\ reset_ret'.kind = "return"
                /\ execution_stats' = NoStats
      /\ timed_out => d = 1
      /\ d > 0 => (timed_out /\ d = 1)

\* C29: no step of the executor or of an entry point lowers a counter; a
\* counter goes down only in a reset_system_state call that returns, which
\* sets all five to 0; each timed-out attempt of the retry loop raises
\* timeout_occurred by exactly one, and nothing else raises it.
C29_CountersMonotone == [][C29_Step]_vars

C29_Witness ==
  /\ er_kind = "callable"
  /\ er_trace = <<"timeout", "timeout">>
  /\ reset_ret.kind = "return"
  /\ execution_stats.timeout_occurred = 1
  /\ execution_stats.total_attempts = 1

\* What a step that is a _get_fallback_result call may do.
C30_Step ==
  fallback_call'.n # fallback_call.n
    => /\ UNCHANGED <<execution_stats, circuit_breaker, fallback_to_sync>>
       /\ (fallback_call.made
            /\ fallback_call'.task_id = fallback_call.task_id)
           => fallback_call'.value = fallback_call.value

\* C30: in the base class and in both overrides, a _get_fallback_result
\* call changes neither the counters nor the breaker nor the sync flag, and
\* returns the value that the previous call with the same task id returned.
C30_FallbackPure == [][C30_Step]_vars

\* ---------------------------------------------------------------- C31
InCriticalSection(t) ==
  /\ threads[t].op = "store_agent_result"
  /\ threads[t].pc \in {"s_check", "s_init", "s_append", "s_save"}

\* the entries of session s that hold the result of thread t's store
Appended(t) ==
  LET s == threads[t].sid
      a == threads[t].agent
  IN  IF s \in DOMAIN session_data
         /\ a \in DOMAIN session_data[s].agent_results
        THEN {j \in 1..Len(session_data[s].agent_results[a]) :
                session_data[s].agent_results[a][j].result
                  = threads[t].result}
        ELSE {}

\* C31: stores to one session are serialized by the session's lock: no two
\* threads are inside the critical section of store_agent_result for the
\* same session, a store that has appended its result has it in the
\* session's list exactly once, and, sessions being created and cleaned up
\* meanwhile, a store ends by returning True or False or by reporting the
\* session as missing (ValueError).
C31_StoresSerialized ==
  /\ \A t1, t2 \in Threads :
       InCriticalSection(t1) /\ InCriticalSection(t2)
       /\ threads[t1].sid = threads[t2].sid => t1 = t2
  /\ \A t \in Threads :
       threads[t].op = "store_agent_result" =>
         /\ Cardinality(Appended(t)) <= 1
         /\ (threads[t].pc = "s_save" \/ threads[t].ret = "True")
            /\ threads[t].sid \in DOMAIN session_data
              => Cardinality(Appended(t)) = 1
         /\ threads[t].pc = "done"
              => threads[t].ret \in {"True", "False", "ValueError"}

\* ---------------------------------------------------------------- C32
\* C32: whenever _running is true, exactly _max_workers worker tasks are
\* alive, and they are the tasks listed in self._workers, however
\* enqueue_work (which starts the pool), start and stop interleave.
C32_PoolMatchesFlag ==
  _running => /\ LiveWorkers = _max_workers
              /\ _workers # 0
              /\ Alive(_workers) = _max_workers

\* ---------------------------------------------------------------- C33
\* C33: a get_results call that is suspended in queue.join() eventually
\* returns, every item's callable ending; a call that finds nothing
\* unfinished returns at once.
C33_GetResultsReturns == (get_pc = "join") ~> (get_pc = "idle")

\* ---------------------------------------------------------------- C34
\* C34: an attempt that execute_with_resilience abandons at its timeout
\* records neither a success nor a failure: when it ends, failure_count,
\* success_count, last_failure_time and state are what they were when the
\* attempt started, as the state property reports them (the read that
\* admits the attempt makes the OPEN -> HALF_OPEN transition when it is
\* due), so the abandoned attempt leaves no breaker OPEN.
C34_TimeoutRecordsNothing ==
  (lastOp = "execute_cancelled" /\ er_trace # <<>>
   /\ LastOf(er_trace) = "timeout")
    => LET b0 == state(attempt_start.breaker, attempt_start.at)
       IN  /\ attempt_start.made
           /\ circuit_breaker.failure_count = b0.failure_count
           /\ circuit_breaker.success_count = b0.success_count
           /\ circuit_breaker.last_failure_time = b0.last_failure_time
           /\ circuit_breaker.state = b0.state
           /\ circuit_breaker.n_success = 0
           /\ circuit_breaker.n_failure = 0
           /\ circuit_breaker.state # OPEN

C34_Witness ==
  /\ lastOp = "execute_cancelled"
  /\ er_trace = <<"timeout", "timeout">>
  /\ execution_stats.timeout_occurred = 2
  /\ circuit_breaker.state = HALF_OPEN
  /\ circuit_breaker.failure_count = failure_threshold
  /\ half_open_attempts = 2

\* ---------------------------------------------------------------- C35
\* C35: a failure recorded on a breaker that is already OPEN (by a call
\* that was admitted before it opened, other calls being in flight) leaves
\* it OPEN and restarts the recovery period at the time of that failure: the
\* breaker reads OPEN until recovery_timeout has passed since then, and
\* HALF_OPEN after.  A success recorded while the breaker reads OPEN changes
\* none of its fields.
C35_RecordsWhileOpen ==
  /\ (lastOp \in FailureOps /\ pre.state = OPEN)
       => /\ circuit_breaker.state = OPEN
          /\ circuit_breaker.last_failure_time = now
          /\ state(circuit_breaker, now + recovery_timeout).state = OPEN
          /\ state(circuit_breaker, now + recovery_timeout + 1).state
               = HALF_OPEN
  /\ (lastOp \in SuccessOps /\ state(pre, now).state = OPEN)
       => /\ circuit_breaker.state = pre.state
          /\ circuit_breaker.failure_count = pre.failure_count
          /\ circuit_breaker.success_count = pre.success_count
          /\ circuit_breaker.last_failure_time = pre.last_failure_time

C35_Witness ==
  /\ lastOp = "execute_raise"
  /\ pre.state = OPEN
  /\ pre.last_failure_time < now
  /\ circuit_breaker.failure_count > failure_threshold
  /\ \E c \in CallIds : calls[c] = "running"

\* ---------------------------------------------------------------- C36
\* C36: with failure_threshold >= 1, a CLOSED breaker has a failure count
\* below the threshold, and an OPEN breaker has the time of its last
\* failure set, so that it reads HALF_OPEN once recovery_timeout has passed
\* since then; reset_system_state keeps both.
C36_BreakerInvariant ==
  /\ circuit_breaker.state = CLOSED
       => circuit_breaker.failure_count < failure_threshold
  /\ circuit_breaker.state = OPEN
       => /\ circuit_breaker.last_failure_time # NoneTime
          /\ state(circuit_breaker,
                   circuit_breaker.last_failure_time + recovery_timeout + 1
                  ).state = HALF_OPEN

C36_Witness ==
  /\ lastOp = "reset_system_state"
  /\ agent_class = "JSXCreatorAgent"
  /\ pre.state = OPEN
  /\ pre.failure_count > failure_threshold
  /\ circuit_breaker.state = CLOSED
  /\ circuit_breaker.last_failure_time # NoneTime

\* ---------------------------------------------------------------- C37
\* A finished get_agent_results call that returned a list.
GotList(t) ==
  /\ threads[t].op = "get_agent_results"
  /\ threads[t].pc = "done"
  /\ threads[t].ret = "list"

\* The entries session s holds, over all its agents.
Held(s) ==
  UNION {{session_data[s].agent_results[a][j] :
            j \in 1..Len(session_data[s].agent_results[a])} :
          a \in DOMAIN session_data[s].agent_results}

\* C37: sessions are isolated: every result a finished get_agent_results
\* call returned was passed to store_agent_result with the session id of
\* the get call, every entry a session holds was stored under that session
\* and was not flagged as contaminated, and every finished
\* get_cross_session_data call returned the empty list.
C37_SessionsIsolated ==
  /\ \A t \in Threads :
       GotList(t) =>
         \A j \in 1..Len(threads[t].got) :
           /\ threads[t].got[j].sid = threads[t].sid
           /\ ~threads[t].got[j].contaminated
  /\ \A s \in DOMAIN session_data :
       \A e \in Held(s) : e.result.sid = s /\ ~e.result.contaminated
  /\ \A t \in Threads :
       (threads[t].op = "get_cross_session_data" /\ threads[t].pc = "done")
         => threads[t].got = <<>>

\* Two sessions hold results and a get on one of them returned a non-empty
\* list.
C37_Witness ==
  /\ \E s \in DOMAIN session_data, s2 \in DOMAIN session_data :
       s # s2 /\ Held(s) # {} /\ Held(s2) # {}
  /\ \E t \in Threads : GotList(t) /\ threads[t].got # <<>>

\* ---------------------------------------------------------------- C38
\* The entry-point call found the flag set when it was made.
FoundFlag == entry_call.pc # "idle" /\ entry_call.flag_at_entry

\* C38: the sync-mode flag goes from set to clear in no step but a
\* reset_system_state call, and a generate_jsx_components_async or
\* analyze_content_for_jsx call that finds the flag set takes the sync mode
\* at once: it makes no execute_with_resilience call, so that the retry
\* loop and the breaker are not entered.
C38_FlagSticky ==
  /\ [](FoundFlag => /\ entry_call.mode = "sync"
                     /\ entry_call.stage = 0
                     /\ er_pc = "idle")
  /\ [][(fallback_to_sync /\ ~fallback_to_sync')
          => \E loop_running \in BOOLEAN : reset_system_state(loop_running)
       ]_vars

\* The creator agent's call ended in sync mode because of the flag that an
\* earlier call set when its retries ended on the open breaker.
C38_Witness ==
  /\ agent_class = "JSXCreatorAgent"
  /\ FoundFlag
  /\ entry_call.pc = "done"
  /\ entry_call.ret = "sync_components"
  /\ fallback_to_sync
  /\ er_ret = [kind |-> "raise", val |-> CircuitBreakerOpenError]

\* ---------------------------------------------------------------- C39
\* C39: successful_executions never exceeds total_attempts, whatever the
\* interleaving of reset_system_state with the calls in flight.
C39_SuccessWithinAttempts ==
  execution_stats.successful_executions <= execution_stats.total_attempts

\* ---------------------------------------------------------------- C40
\* The items that a worker task or a batch has taken and not yet marked
\* done.
Taken ==
  {i \in ItemIds : flight[i].pc # "none"}
    \cup UNION {IF batches[b].pc \in {"collect", "collected", "acquire"}
                  THEN batches[b].items
                  ELSE batches[b].running : b \in Batches}

\* C40: the queue's count of unfinished tasks equals the number of items in
\* the queue plus the number of items taken and still held by a worker or a
\* batch, so that every item that stopped being held, in whichever way it
\* ended, was marked done once; the count is never negative.
C40_DoneOncePerItem ==
  /\ unfinished_tasks = Cardinality(_queue) + Cardinality(Taken)
  /\ unfinished_tasks >= 0

\* Every put item has been marked done: one was given up by a cancelled
\* worker and has no entry, one timed out in the batch executor.
C40_Witness ==
  /\ unfinished_tasks = 0
  /\ \E i \in ItemIds \ batches[1].items :
       executed[i] > 0 /\ flight[i].pc = "none" /\ _results[i] = "none"
  /\ \E i \in batches[1].items : _results[i] = "timeout"

====
